---- MODULE Spec2Model ----
(***************************************************************************)
(* Model of the timesheet backend (src/unnamed/part_000): the REST route   *)
(* handlers over the key-value store, the identity provider and the        *)
(* hand-maintained index lists.                                            *)
(*                                                                         *)
(* Encoding.  Ids are positive integers drawn from counters (the code      *)
(* builds them from Date.now() and Math.random(), so they are fresh).      *)
(* JavaScript null is NULL == 0.  Every test the code makes on maxUses,    *)
(* expiresAt, orgId and inviteCode is a truthiness test, so 0 / "" stand   *)
(* for null, 0 and "" alike.  A key-value namespace is a function whose    *)
(* DOMAIN is the set of keys present; kv.get of a missing key is null.     *)
(* An object spread {...a, ...b} is b @@ a.                                *)
(***************************************************************************)
EXTENDS Integers, Sequences, FiniteSets, TLC

NULL == 0
Roles == {"admin", "staff"}
\* the strings Math.random() can yield for an invite code
CodeStrings == {"AAAA", "BBBB"}

\* request inputs
MaxUsesInputs == {NULL, 1, 2}
ExpiresInDaysInputs == {NULL, 1}

VARIABLES
    now,            \* new Date(), in days
    authUsers,      \* accounts held by the identity provider
    nextUser,       \* next identity id the provider hands out
    nextOrg, nextCode, nextProject, nextTimesheet,   \* fresh-id counters
    users,          \* users:{userId}
    organizations,  \* organizations:{orgId}
    inviteCodes,    \* invite-codes:{codeId}
    projects,       \* projects:{projectId}
    timesheets,     \* timesheets:{timesheetId}
    userOrg,        \* user-org:{userId}
    orgUsers,       \* org-users:{orgId}
    orgsUsers,      \* orgs:{orgId}:users
    orgInviteCodes, \* org-invite-codes:{orgId}
    orgProjects,    \* org-projects:{orgId}
    userTimesheets, \* user-timesheets:{userId}
    resp,           \* the response of the request handled last
    procs           \* requests in flight (interleaved specifications)

kvVars == <<users, organizations, inviteCodes, projects, timesheets, userOrg,
            orgUsers, orgsUsers, orgInviteCodes, orgProjects, userTimesheets>>
idVars == <<nextUser, nextOrg, nextCode, nextProject, nextTimesheet>>
vars == <<now, authUsers, idVars, kvVars, resp, procs>>

\* ------------------------------------------------------- key-value store
\* kv.get(key) || []
GetList(ns, k) == IF k \in DOMAIN ns THEN ns[k] ELSE <<>>

\* kv.set(key, value)
KvSet(ns, k, v) == (k :> v) @@ ns

\* kv.del(key)
KvDel(ns, k) == [x \in DOMAIN ns \ {k} |-> ns[x]]

\* kv.mget(keys): the values stored under the keys, missing keys dropped
Mget(ns, ids) == {ns[i] : i \in {j \in DOMAIN ns : \E n \in DOMAIN ids : ids[n] = j}}

\* kv.getByPrefix(prefix): every value of the namespace
GetByPrefix(ns) == {ns[i] : i \in DOMAIN ns}

\* array.filter(id => id !== x)
RECURSIVE FilterOut(_, _)
FilterOut(s, x) ==
    IF s = <<>> THEN <<>>
    ELSE IF Head(s) = x THEN FilterOut(Tail(s), x)
         ELSE <<Head(s)>> \o FilterOut(Tail(s), x)

\* number of occurrences of x in the list s
Count(s, x) == Cardinality({n \in DOMAIN s : s[n] = x})

\* ---------------------------------------------------------- responses
\* the request handled last and its JSON response: route, status, error,
\* arg: what the request named (an invite code string, an id),
\* out: the ids of a returned list
Resp(op, status, err, arg, out) ==
    [op |-> op, status |-> status, err |-> err, arg |-> arg, out |-> out]

\* ------------------------------------------------------------ identity
\* a verifier that takes the credential's word and never asks the provider
verifyUserTrusting(token) == IF token = NULL THEN nextUser ELSE token

\* verifyUser: the provider's account for the bearer credential, or null
verifyUser(token) == IF token \in authUsers THEN token ELSE NULL

Init ==
    /\ now = 0
    /\ authUsers = {}
    /\ nextUser = 1 /\ nextOrg = 1 /\ nextCode = 1
    /\ nextProject = 1 /\ nextTimesheet = 1
    /\ users = <<>> /\ organizations = <<>> /\ inviteCodes = <<>>
    /\ projects = <<>> /\ timesheets = <<>>
    /\ userOrg = <<>> /\ orgUsers = <<>> /\ orgsUsers = <<>>
    /\ orgInviteCodes = <<>> /\ orgProjects = <<>> /\ userTimesheets = <<>>
    /\ resp = Resp("init", 0, "", "", {})
    /\ procs = <<>>

\* the clock advances
Tick ==
    /\ now' = now + 1
    /\ resp' = Resp("tick", 0, "", "", {})
    /\ UNCHANGED <<authUsers, idVars, kvVars, procs>>

\* ------------------------------------------------------------- signup
\* codes.find without the expiry test
SignupValidNoExpiry(c, inviteCode, t) ==
    /\ c.code = inviteCode
    /\ c.isActive
    /\ (c.maxUses = NULL \/ c.currentUses < c.maxUses)

\* codes.find without the isActive test
SignupValidInactive(c, inviteCode, t) ==
    /\ c.code = inviteCode
    /\ (c.expiresAt = NULL \/ c.expiresAt > t)
    /\ (c.maxUses = NULL \/ c.currentUses < c.maxUses)

\* the predicate of codes.find in POST /signup
SignupValid(c, inviteCode, t) ==
    /\ c.code = inviteCode
    /\ c.isActive
    /\ (c.expiresAt = NULL \/ c.expiresAt > t)
    /\ (c.maxUses = NULL \/ c.currentUses < c.maxUses)

\* the record written back for the redeemed code
RedeemedCode(validCode) ==
    [currentUses |-> validCode.currentUses + 1] @@ validCode

\* the invite branch keeping the role of the request body
InviteUserBodyRole(userId, validCode, role) ==
    [id |-> userId, role |-> role, orgId |-> validCode.orgId]

\* the user record of a signup that joins by invite code
InviteUser(userId, validCode, role) ==
    [id |-> userId, role |-> "staff", orgId |-> validCode.orgId]

\* auth.admin.createUser and auth.admin.deleteUser of the identity provider
CreateIdentity(accounts, userId) == accounts \cup {userId}

\* a deleteUser that leaves the account in place
DeleteIdentityKept(accounts, userId) == accounts

DeleteIdentity(accounts, userId) == accounts \ {userId}

\* POST /signup.  idOk: the identity provider accepts the new account.
\* hasOrgName: the body carries a non-empty organizationName.
Signup(inviteCode, hasOrgName, role, idOk) ==
    /\ UNCHANGED <<now, procs, projects, timesheets, orgsUsers,
                   orgInviteCodes, orgProjects, userTimesheets,
                   nextCode, nextProject, nextTimesheet>>
    /\ IF ~idOk
       THEN /\ resp' = Resp("signup", 400, "identity", inviteCode, {})
            /\ UNCHANGED <<authUsers, nextUser, nextOrg, users, organizations,
                           inviteCodes, userOrg, orgUsers>>
       ELSE
       /\ LET userId == nextUser
              valid == {c \in GetByPrefix(inviteCodes) :
                            SignupValid(c, inviteCode, now)}
              joinIndex(orgId) ==
                  IF orgId # NULL
                  THEN /\ userOrg' = KvSet(userOrg, userId, orgId)
                       /\ orgUsers' = KvSet(orgUsers, orgId,
                                        Append(GetList(orgUsers, orgId), userId))
                  ELSE UNCHANGED <<userOrg, orgUsers>>
          IN
          IF inviteCode # ""
          THEN IF valid = {}
               THEN /\ authUsers' = DeleteIdentity(
                                         CreateIdentity(authUsers, userId), userId)
                    /\ resp' = Resp("signup", 400,
                                    "Invalid or expired invite code",
                                    inviteCode, {})
                    /\ UNCHANGED <<nextUser, nextOrg, users, organizations,
                                   inviteCodes, userOrg, orgUsers>>
               ELSE \E validCode \in valid :
               /\ nextUser' = nextUser + 1
                    /\ authUsers' = CreateIdentity(authUsers, userId)
                    /\ inviteCodes' = KvSet(inviteCodes, validCode.id,
                                            RedeemedCode(validCode))
                    /\ users' = KvSet(users, userId,
                                      InviteUser(userId, validCode, role))
                    /\ joinIndex(validCode.orgId)
                    /\ resp' = Resp("signup", 200, "", inviteCode, {})
                    /\ UNCHANGED <<nextOrg, organizations>>
          ELSE IF hasOrgName
          THEN /\ nextOrg' = nextOrg + 1
               /\ nextUser' = nextUser + 1
               /\ authUsers' = CreateIdentity(authUsers, userId)
               /\ organizations' = KvSet(organizations, nextOrg,
                      [id |-> nextOrg, createdBy |-> userId])
               /\ users' = KvSet(users, userId,
                      [id |-> userId, role |-> "admin", orgId |-> nextOrg])
               /\ joinIndex(nextOrg)
               /\ resp' = Resp("signup", 200, "", inviteCode, {})
               /\ UNCHANGED inviteCodes
          ELSE /\ nextUser' = nextUser + 1
               /\ authUsers' = CreateIdentity(authUsers, userId)
               /\ users' = KvSet(users, userId,
                      [id |-> userId, role |-> role, orgId |-> NULL])
               /\ resp' = Resp("signup", 200, "", inviteCode, {})
               /\ UNCHANGED <<nextOrg, organizations, inviteCodes,
                              userOrg, orgUsers>>

\* ------------------------------------------------------- authorization
\* the opening of an admin-only route without the role test
AdminGateAnyRole(token) ==
    IF verifyUser(token) = NULL THEN 401
    ELSE IF token \notin DOMAIN users THEN 500
    ELSE 200

\* The opening of every admin-only route: verifyUser, the read of the
\* caller's record and the role test.  A verified caller without a stored
\* record makes currentUser.role throw, which the handler's catch turns
\* into a 500.
AdminGate(token) ==
    IF verifyUser(token) = NULL THEN 401
    ELSE IF token \notin DOMAIN users THEN 500
    ELSE IF users[token].role # "admin" THEN 403
    ELSE 200

GateError(status) ==
    CASE status = 401 -> "Unauthorized"
      [] status = 403 -> "Forbidden - Admin only"
      [] OTHER -> "Failed"

\* -------------------------------------------------------- invite codes
\* POST /invite-codes
PostInviteCodes(token, expiresInDays, maxUses) ==
    /\ UNCHANGED <<now, authUsers, procs, users, organizations, projects,
                   timesheets, userOrg, orgUsers, orgsUsers, orgProjects,
                   userTimesheets, nextUser, nextOrg, nextProject,
                   nextTimesheet>>
    /\ IF AdminGate(token) # 200
       THEN /\ resp' = Resp("postInviteCodes", AdminGate(token),
                            GateError(AdminGate(token)), token, {})
            /\ UNCHANGED <<inviteCodes, orgInviteCodes, nextCode>>
       ELSE
       /\ nextCode' = nextCode + 1
       /\ \E code \in CodeStrings :
          LET currentUser == users[token]
              codeId == nextCode
              expiresAt == IF expiresInDays > 0 THEN now + expiresInDays
                           ELSE NULL
              inviteCode == [id |-> codeId, code |-> code,
                             orgId |-> currentUser.orgId,
                             expiresAt |-> expiresAt,
                             maxUses |-> maxUses,
                             currentUses |-> 0,
                             isActive |-> TRUE]
          IN /\ inviteCodes' = KvSet(inviteCodes, codeId, inviteCode)
             /\ orgInviteCodes' = KvSet(orgInviteCodes, currentUser.orgId,
                    Append(GetList(orgInviteCodes, currentUser.orgId), codeId))
             /\ resp' = Resp("postInviteCodes", 200, "", token, {})

\* the checks shared by PUT /invite-codes/:codeId/toggle and
\* DELETE /invite-codes/:codeId before they write
CodeGate(token, codeId) ==
    IF AdminGate(token) # 200 THEN AdminGate(token)
    ELSE IF codeId \notin DOMAIN inviteCodes THEN 404
    ELSE IF inviteCodes[codeId].orgId # users[token].orgId THEN 403
    ELSE 200

CodeGateError(token, codeId) ==
    IF AdminGate(token) # 200 THEN GateError(AdminGate(token))
    ELSE IF codeId \notin DOMAIN inviteCodes THEN "Invite code not found"
    ELSE "Forbidden"

\* a toggle that only ever deactivates
ToggledCodeOff(inviteCode) ==
    [isActive |-> FALSE] @@ inviteCode

\* what the toggle stores: {...inviteCode, isActive: !inviteCode.isActive}
ToggledCode(inviteCode) ==
    [isActive |-> ~inviteCode.isActive] @@ inviteCode

\* the store after the toggle's kv.set
ToggleStore(codes, codeId) == KvSet(codes, codeId, ToggledCode(codes[codeId]))

\* PUT /invite-codes/:codeId/toggle
ToggleInviteCode(token, codeId) ==
    /\ UNCHANGED <<now, authUsers, procs, idVars, users, organizations,
                   projects, timesheets, userOrg, orgUsers, orgsUsers,
                   orgInviteCodes, orgProjects, userTimesheets>>
    /\ IF CodeGate(token, codeId) # 200
       THEN /\ resp' = Resp("toggleInviteCode", CodeGate(token, codeId),
                            CodeGateError(token, codeId), token, {})
            /\ UNCHANGED inviteCodes
       ELSE /\ inviteCodes' = ToggleStore(inviteCodes, codeId)
            /\ resp' = Resp("toggleInviteCode", 200, "", token, {})

\* DELETE /invite-codes/:codeId
DeleteInviteCode(token, codeId) ==
    /\ UNCHANGED <<now, authUsers, procs, idVars, users, organizations,
                   projects, timesheets, userOrg, orgUsers, orgsUsers,
                   orgProjects, userTimesheets>>
    /\ IF CodeGate(token, codeId) # 200
       THEN /\ resp' = Resp("deleteInviteCode", CodeGate(token, codeId),
                            CodeGateError(token, codeId), token, {})
            /\ UNCHANGED <<inviteCodes, orgInviteCodes>>
       ELSE LET orgId == users[token].orgId
            IN /\ inviteCodes' = KvDel(inviteCodes, codeId)
               /\ orgInviteCodes' = KvSet(orgInviteCodes, orgId,
                      FilterOut(GetList(orgInviteCodes, orgId), codeId))
               /\ resp' = Resp("deleteInviteCode", 200, "", token, {})

\* --------------------------------------------------------------- users
\* {...targetUser, ...updates, id: userId}
UpdatedUser(targetUser, updates, userId) ==
    [id |-> userId] @@ updates @@ targetUser

\* PUT /users/:userId
PutUser(token, userId, updates) ==
    /\ UNCHANGED <<now, authUsers, procs, idVars, organizations, inviteCodes,
                   projects, timesheets, userOrg, orgUsers, orgsUsers,
                   orgInviteCodes, orgProjects, userTimesheets>>
    /\ IF AdminGate(token) # 200
       THEN /\ resp' = Resp("putUser", AdminGate(token),
                            GateError(AdminGate(token)),
                            <<token, userId, updates>>, {})
            /\ UNCHANGED users
       ELSE IF userId \notin DOMAIN users
       THEN /\ resp' = Resp("putUser", 404, "User not found",
                            <<token, userId, updates>>, {})
            /\ UNCHANGED users
       ELSE /\ users' = KvSet(users, userId,
                              UpdatedUser(users[userId], updates, userId))
            /\ resp' = Resp("putUser", 200, "", <<token, userId, updates>>, {})

\* a guard that never recognises the caller
IsSelfNever(userId, callerId) == FALSE

\* userId === user.id: the target of the request is the caller
IsSelf(userId, callerId) == userId = callerId

\* DELETE /users/:userId.  authDeleted: the provider deletes the account.
DeleteUser(token, userId, authDeleted) ==
    /\ UNCHANGED <<now, procs, idVars, organizations, inviteCodes, projects,
                   timesheets, userOrg, orgUsers, orgInviteCodes, orgProjects,
                   userTimesheets>>
    /\ IF AdminGate(token) # 200
       THEN /\ resp' = Resp("deleteUser", AdminGate(token),
                            GateError(AdminGate(token)), <<token, userId>>, {})
            /\ UNCHANGED <<users, orgsUsers, authUsers>>
       ELSE IF IsSelf(userId, token)
       THEN /\ resp' = Resp("deleteUser", 400,
                            "Cannot delete your own account",
                            <<token, userId>>, {})
            /\ UNCHANGED <<users, orgsUsers, authUsers>>
       ELSE IF userId \notin DOMAIN users
       THEN /\ resp' = Resp("deleteUser", 404, "User not found",
                            <<token, userId>>, {})
            /\ UNCHANGED <<users, orgsUsers, authUsers>>
       ELSE LET targetUser == users[userId]
            IN /\ users' = KvDel(users, userId)
               /\ IF targetUser.orgId # NULL
                  THEN orgsUsers' = KvSet(orgsUsers, targetUser.orgId,
                           FilterOut(GetList(orgsUsers, targetUser.orgId),
                                     userId))
                  ELSE UNCHANGED orgsUsers
               /\ authUsers' = IF authDeleted
                               THEN DeleteIdentity(authUsers, userId)
                               ELSE authUsers
               /\ resp' = Resp("deleteUser", 200, "", <<token, userId>>, {})

\* ------------------------------------------------------------ projects
\* POST /projects
PostProjects(token, assignedUsers) ==
    /\ UNCHANGED <<now, authUsers, procs, users, organizations, inviteCodes,
                   timesheets, userOrg, orgUsers, orgsUsers, orgInviteCodes,
                   userTimesheets, nextUser, nextOrg, nextCode,
                   nextTimesheet>>
    /\ IF AdminGate(token) # 200
       THEN /\ resp' = Resp("postProjects", AdminGate(token),
                            GateError(AdminGate(token)), token, {})
            /\ UNCHANGED <<projects, orgProjects, nextProject>>
       ELSE LET currentUser == users[token]
                projectId == nextProject
                project == [id |-> projectId, orgId |-> currentUser.orgId,
                            assignedUsers |-> assignedUsers,
                            createdBy |-> token]
            IN /\ nextProject' = nextProject + 1
               /\ projects' = KvSet(projects, projectId, project)
               /\ orgProjects' = KvSet(orgProjects, currentUser.orgId,
                      Append(GetList(orgProjects, currentUser.orgId),
                             projectId))
               /\ resp' = Resp("postProjects", 200, "", token, {})

\* GET /projects without the staff filter
VisibleProjectsAll(currentUser, userId, found) == found

\* the list GET /projects answers a caller with an organization
VisibleProjects(currentUser, userId, found) ==
    IF currentUser.role = "staff"
    THEN {p \in found : userId \in p.assignedUsers}
    ELSE found

\* GET /projects
GetProjects(token) ==
    /\ UNCHANGED <<now, authUsers, procs, idVars, kvVars>>
    /\ IF verifyUser(token) = NULL
       THEN resp' = Resp("getProjects", 401, "Unauthorized", token, {})
       ELSE IF token \notin DOMAIN users
       THEN resp' = Resp("getProjects", 500, "Failed to fetch projects",
                         token, {})
       ELSE IF users[token].orgId = NULL
       THEN resp' = Resp("getProjects", 200, "", token, {})
       ELSE LET currentUser == users[token]
                projectIds == GetList(orgProjects, currentUser.orgId)
                found == Mget(projects, projectIds)
            IN resp' = Resp("getProjects", 200, "", token,
                   {p.id : p \in VisibleProjects(currentUser, token, found)})

\* {...project, ...updates, id: projectId}
UpdatedProject(project, updates, projectId) ==
    [id |-> projectId] @@ updates @@ project

\* PUT /projects/:projectId
PutProject(token, projectId, updates) ==
    /\ UNCHANGED <<now, authUsers, procs, idVars, users, organizations,
                   inviteCodes, timesheets, userOrg, orgUsers, orgsUsers,
                   orgInviteCodes, orgProjects, userTimesheets>>
    /\ IF AdminGate(token) # 200
       THEN /\ resp' = Resp("putProject", AdminGate(token),
                            GateError(AdminGate(token)), token, {})
            /\ UNCHANGED projects
       ELSE IF projectId \notin DOMAIN projects
       THEN /\ resp' = Resp("putProject", 404, "Project not found", token, {})
            /\ UNCHANGED projects
       ELSE /\ projects' = KvSet(projects, projectId,
                   UpdatedProject(projects[projectId], updates, projectId))
            /\ resp' = Resp("putProject", 200, "", token, {})

\* DELETE /projects/:projectId
DeleteProject(token, projectId) ==
    /\ UNCHANGED <<now, authUsers, procs, idVars, users, organizations,
                   inviteCodes, timesheets, userOrg, orgUsers, orgsUsers,
                   orgInviteCodes, userTimesheets>>
    /\ IF AdminGate(token) # 200
       THEN /\ resp' = Resp("deleteProject", AdminGate(token),
                            GateError(AdminGate(token)), token, {})
            /\ UNCHANGED <<projects, orgProjects>>
       ELSE IF projectId \notin DOMAIN projects
       THEN /\ resp' = Resp("deleteProject", 404, "Project not found",
                            token, {})
            /\ UNCHANGED <<projects, orgProjects>>
       ELSE LET orgId == users[token].orgId
            IN /\ projects' = KvDel(projects, projectId)
               /\ orgProjects' = KvSet(orgProjects, orgId,
                      FilterOut(GetList(orgProjects, orgId), projectId))
               /\ resp' = Resp("deleteProject", 200, "", token, {})

\* ---------------------------------------------------------- timesheets
\* the entry POST /timesheets stores; body: the fields taken from the request
NewTimesheet(timesheetId, userId, body) ==
    [id |-> timesheetId, userId |-> userId, projectId |-> body.projectId,
     startTime |-> body.startTime, endTime |-> body.endTime,
     duration |-> body.duration]

\* POST /timesheets
PostTimesheets(token, body) ==
    /\ UNCHANGED <<now, authUsers, procs, users, organizations, inviteCodes,
                   projects, userOrg, orgUsers, orgsUsers, orgInviteCodes,
                   orgProjects, nextUser, nextOrg, nextCode, nextProject>>
    /\ IF verifyUser(token) = NULL
       THEN /\ resp' = Resp("postTimesheets", 401, "Unauthorized",
                            <<token, NULL>>, {})
            /\ UNCHANGED <<timesheets, userTimesheets, nextTimesheet>>
       ELSE LET timesheetId == nextTimesheet
            IN /\ nextTimesheet' = nextTimesheet + 1
               /\ timesheets' = KvSet(timesheets, timesheetId,
                                      NewTimesheet(timesheetId, token, body))
               /\ userTimesheets' = KvSet(userTimesheets, token,
                      Append(GetList(userTimesheets, token), timesheetId))
               /\ resp' = Resp("postTimesheets", 200, "",
                               <<token, timesheetId>>, {})

\* the checks without the owner test
TimesheetGateNoOwner(token, timesheetId) ==
    IF verifyUser(token) = NULL THEN 401
    ELSE IF timesheetId \notin DOMAIN timesheets THEN 404
    ELSE 200

\* the checks of PUT and DELETE /timesheets/:timesheetId before they write
TimesheetGate(token, timesheetId) ==
    IF verifyUser(token) = NULL THEN 401
    ELSE IF timesheetId \notin DOMAIN timesheets THEN 404
    ELSE IF timesheets[timesheetId].userId # token THEN 403
    ELSE 200

TimesheetGateError(status) ==
    CASE status = 401 -> "Unauthorized"
      [] status = 404 -> "Timesheet not found"
      [] OTHER -> "Forbidden"

\* {...timesheet, ...updates} without the id and userId written last
UpdatedTimesheetMerged(timesheet, updates, timesheetId, userId) ==
    updates @@ timesheet

\* {...timesheet, ...updates, id: timesheetId, userId: user.id}
UpdatedTimesheet(timesheet, updates, timesheetId, userId) ==
    [id |-> timesheetId, userId |-> userId] @@ updates @@ timesheet

\* PUT /timesheets/:timesheetId
PutTimesheet(token, timesheetId, updates) ==
    /\ UNCHANGED <<now, authUsers, procs, idVars, users, organizations,
                   inviteCodes, projects, userOrg, orgUsers, orgsUsers,
                   orgInviteCodes, orgProjects, userTimesheets>>
    /\ IF TimesheetGate(token, timesheetId) # 200
       THEN /\ resp' = Resp("putTimesheet", TimesheetGate(token, timesheetId),
                   TimesheetGateError(TimesheetGate(token, timesheetId)),
                   <<token, timesheetId>>, {})
            /\ UNCHANGED timesheets
       ELSE /\ timesheets' = KvSet(timesheets, timesheetId,
                   UpdatedTimesheet(timesheets[timesheetId], updates,
                                    timesheetId, token))
            /\ resp' = Resp("putTimesheet", 200, "",
                            <<token, timesheetId, updates>>, {})

\* DELETE /timesheets/:timesheetId
DeleteTimesheet(token, timesheetId) ==
    /\ UNCHANGED <<now, authUsers, procs, idVars, users, organizations,
                   inviteCodes, projects, userOrg, orgUsers, orgsUsers,
                   orgInviteCodes, orgProjects>>
    /\ IF TimesheetGate(token, timesheetId) # 200
       THEN /\ resp' = Resp("deleteTimesheet",
                   TimesheetGate(token, timesheetId),
                   TimesheetGateError(TimesheetGate(token, timesheetId)),
                   <<token, timesheetId>>, {})
            /\ UNCHANGED <<timesheets, userTimesheets>>
       ELSE /\ timesheets' = KvDel(timesheets, timesheetId)
            /\ userTimesheets' = KvSet(userTimesheets, token,
                   FilterOut(GetList(userTimesheets, token), timesheetId))
            /\ resp' = Resp("deleteTimesheet", 200, "",
                            <<token, timesheetId>>, {})

\* ------------------------------------------- organization and profile
\* the checks of the routes that answer an organization's lists:
\* currentUser.orgId !== orgId || currentUser.role !== 'admin'
OrgGate(token, orgId) ==
    IF verifyUser(token) = NULL THEN 401
    ELSE IF token \notin DOMAIN users THEN 500
    ELSE IF users[token].orgId # orgId \/ users[token].role # "admin" THEN 403
    ELSE 200

OrgGateError(status) ==
    CASE status = 401 -> "Unauthorized"
      [] status = 403 -> "Forbidden"
      [] OTHER -> "Failed"

\* the state every read route leaves alone
readFrame == <<now, authUsers, procs, idVars, kvVars>>

\* GET /invite-codes/:orgId
GetInviteCodes(token, orgId) ==
    /\ UNCHANGED readFrame
    /\ IF OrgGate(token, orgId) # 200
       THEN resp' = Resp("getInviteCodes", OrgGate(token, orgId),
                         OrgGateError(OrgGate(token, orgId)),
                         <<token, orgId>>, {})
       ELSE LET codeIds == GetList(orgInviteCodes, orgId)
            IN resp' = Resp("getInviteCodes", 200, "", <<token, orgId>>,
                            {c.id : c \in Mget(inviteCodes, codeIds)})

\* GET /organizations/:orgId
GetOrganization(token, orgId) ==
    /\ UNCHANGED readFrame
    /\ IF verifyUser(token) = NULL
       THEN resp' = Resp("getOrganization", 401, "Unauthorized",
                         <<token, orgId>>, {})
       ELSE IF orgId \notin DOMAIN organizations
       THEN resp' = Resp("getOrganization", 404, "Organization not found",
                         <<token, orgId>>, {})
       ELSE resp' = Resp("getOrganization", 200, "", <<token, orgId>>,
                         {organizations[orgId].id})

\* GET /users/me
GetMe(token) ==
    /\ UNCHANGED readFrame
    /\ IF verifyUser(token) = NULL
       THEN resp' = Resp("getMe", 401, "Unauthorized", <<token>>, {})
       ELSE IF token \notin DOMAIN users
       THEN resp' = Resp("getMe", 404, "User profile not found",
                         <<token>>, {})
       ELSE resp' = Resp("getMe", 200, "", <<token>>, {users[token].id})

\* {...currentProfile, ...updates} without the three fields written last
UpdatedProfileMerged(currentProfile, updates, userId) ==
    updates @@ currentProfile

\* {...currentProfile, ...updates, id: user.id, role: currentProfile.role,
\*  orgId: currentProfile.orgId}
UpdatedProfile(currentProfile, updates, userId) ==
    [id |-> userId, role |-> currentProfile.role,
     orgId |-> currentProfile.orgId] @@ updates @@ currentProfile

\* PUT /users/me
PutMe(token, updates) ==
    /\ UNCHANGED <<now, authUsers, procs, idVars, organizations, inviteCodes,
                   projects, timesheets, userOrg, orgUsers, orgsUsers,
                   orgInviteCodes, orgProjects, userTimesheets>>
    /\ IF verifyUser(token) = NULL
       THEN /\ resp' = Resp("putMe", 401, "Unauthorized",
                            <<token, updates>>, {})
            /\ UNCHANGED users
       ELSE IF token \notin DOMAIN users
       THEN /\ resp' = Resp("putMe", 404, "User profile not found",
                            <<token, updates>>, {})
            /\ UNCHANGED users
       ELSE /\ users' = KvSet(users, token,
                              UpdatedProfile(users[token], updates, token))
            /\ resp' = Resp("putMe", 200, "", <<token, updates>>, {})

\* GET /organizations/:orgId/users
GetOrgUsers(token, orgId) ==
    /\ UNCHANGED readFrame
    /\ IF OrgGate(token, orgId) # 200
       THEN resp' = Resp("getOrgUsers", OrgGate(token, orgId),
                         OrgGateError(OrgGate(token, orgId)),
                         <<token, orgId>>, {})
       ELSE LET userIds == GetList(orgUsers, orgId)
            IN resp' = Resp("getOrgUsers", 200, "", <<token, orgId>>,
                            {u.id : u \in Mget(users, userIds)})

\* the projectId query filter of the timesheet lists (NULL: no filter)
ByProject(found, projectId) ==
    IF projectId # NULL THEN {t \in found : t.projectId = projectId}
    ELSE found

\* GET /timesheets
GetTimesheets(token, projectId) ==
    /\ UNCHANGED readFrame
    /\ IF verifyUser(token) = NULL
       THEN resp' = Resp("getTimesheets", 401, "Unauthorized", <<token>>, {})
       ELSE LET timesheetIds == GetList(userTimesheets, token)
                found == Mget(timesheets, timesheetIds)
            IN resp' = Resp("getTimesheets", 200, "", <<token>>,
                            {t.id : t \in ByProject(found, projectId)})

\* the entries the walk over org-users:{orgId} collects
RECURSIVE AllTimesheets(_)
AllTimesheets(userIds) ==
    IF userIds = <<>> THEN {}
    ELSE Mget(timesheets, GetList(userTimesheets, Head(userIds)))
             \cup AllTimesheets(Tail(userIds))

\* GET /organizations/:orgId/timesheets
GetOrgTimesheets(token, orgId, projectId) ==
    /\ UNCHANGED readFrame
    /\ IF OrgGate(token, orgId) # 200
       THEN resp' = Resp("getOrgTimesheets", OrgGate(token, orgId),
                         OrgGateError(OrgGate(token, orgId)),
                         <<token, orgId>>, {})
       ELSE LET userIds == GetList(orgUsers, orgId)
            IN resp' = Resp("getOrgTimesheets", 200, "", <<token, orgId>>,
                   {t.id : t \in ByProject(AllTimesheets(userIds), projectId)})

\* POST /upload-photo.  stored: the storage service takes the file and
\* signs its URL.  The route writes nothing to the key-value store.
UploadPhoto(token, stored) ==
    /\ UNCHANGED readFrame
    /\ IF verifyUser(token) = NULL
       THEN resp' = Resp("uploadPhoto", 401, "Unauthorized", <<token>>, {})
       ELSE IF ~stored
       THEN resp' = Resp("uploadPhoto", 500, "Failed to upload photo",
                         <<token>>, {})
       ELSE resp' = Resp("uploadPhoto", 200, "", <<token>>, {})

\* a bearer credential resolves to an account of the provider or to nothing
Tokens == authUsers \cup {NULL}

\* ------------------------------------------- invite-code specification
\* One organization, every kind of invite code.
InvUsers == 2
InvCodes == 1

\* the clock matters only through expiresAt: it is advanced while some
\* stored code has an expiry that is not yet strictly in the past
ExpiryAhead ==
    \E c \in GetByPrefix(inviteCodes) : c.expiresAt # NULL /\ c.expiresAt >= now

\* signup bodies <<inviteCode, hasOrgName, role, idOk>>: the bodies that
\* supply an invite code and the body that founds an organization
InviteSignups ==
    (CodeStrings \X {FALSE} \X {"staff"} \X BOOLEAN)
        \cup {<<"", TRUE, "staff", TRUE>>}

NextInvite ==
    \/ ExpiryAhead /\ Tick
    \/ \E i \in InviteSignups :
          /\ i[1] = "" => organizations = <<>>
          /\ Signup(i[1], i[2], i[3], i[4])
          /\ nextUser' <= InvUsers + 1
    \/ /\ nextCode <= InvCodes
       /\ \E t \in Tokens, d \in ExpiresInDaysInputs, m \in MaxUsesInputs :
             PostInviteCodes(t, d, m)
    \/ \E t \in Tokens, c \in 1..nextCode : ToggleInviteCode(t, c)
    \/ \E t \in Tokens, c \in 1..nextCode : DeleteInviteCode(t, c)

SpecInvite == Init /\ [][NextInvite]_vars

\* ------------------------------------------------- joining specification
\* Several organizations, codes without limits: who joins which organization.
JoinUsers == 3
JoinOrgs == 2
JoinCodes == 2

\* every body with an invite code, the body that founds an organization and
\* the bodies with neither
JoinSignups ==
    (CodeStrings \X BOOLEAN \X Roles \X BOOLEAN)
        \cup {<<"", TRUE, "staff", TRUE>>}
        \cup {<<"", FALSE, r, TRUE>> : r \in Roles}

NextJoin ==
    \/ \E i \in JoinSignups :
          /\ Signup(i[1], i[2], i[3], i[4])
          /\ nextUser' <= JoinUsers + 1
          /\ nextOrg' <= JoinOrgs + 1
    \/ /\ nextCode <= JoinCodes
       /\ \E t \in Tokens : PostInviteCodes(t, NULL, NULL)

SpecJoin == Init /\ [][NextJoin]_vars

\* ------------------------------------------------ project specification
\* One organization, its admin, staff who join by invite code, its projects.
PrjUsers == 2
PrjProjects == 2

\* the assignedUsers a request body carries: nobody, one account, everybody
AssignedInputs == {{}} \cup {{u} : u \in authUsers} \cup {authUsers}

ProjectSignups ==
    (CodeStrings \X {FALSE} \X {"staff"} \X {TRUE})
        \cup {<<"", TRUE, "staff", TRUE>>}

NextProjects ==
    \/ \E i \in ProjectSignups :
          /\ i[1] = "" => organizations = <<>>
          /\ Signup(i[1], i[2], i[3], i[4])
          /\ nextUser' <= PrjUsers + 1
    \/ /\ nextCode = 1
       /\ \E t \in Tokens : PostInviteCodes(t, NULL, NULL)
    \/ /\ nextProject <= PrjProjects
       /\ \E t \in Tokens, a \in AssignedInputs : PostProjects(t, a)
    \/ \E t \in Tokens : GetProjects(t)
    \/ \E t \in Tokens, p \in 1..nextProject, a \in AssignedInputs :
          PutProject(t, p, [assignedUsers |-> a])
    \/ \E t \in Tokens, p \in 1..nextProject : DeleteProject(t, p)

SpecProjects == Init /\ [][NextProjects]_vars

\* ---------------------------------------------- timesheet specification
\* Accounts without an organization and their timesheet entries.
TsUsers == 2
TsEntries == 2

TimesheetBodies ==
    {[projectId |-> 1, startTime |-> 0, endTime |-> 90, duration |-> 90]}

\* update bodies: a changed field, and bodies that carry userId and id
TimesheetUpdates ==
    {[endTime |-> 30]}
        \cup {[userId |-> u, id |-> nextTimesheet] : u \in authUsers}

NextTimesheets ==
    \/ /\ nextUser <= TsUsers
       /\ Signup("", FALSE, "staff", TRUE)
    \/ /\ nextTimesheet <= TsEntries
       /\ \E t \in Tokens, b \in TimesheetBodies : PostTimesheets(t, b)
    \/ \E t \in Tokens, id \in 1..nextTimesheet, u \in TimesheetUpdates :
          PutTimesheet(t, id, u)
    \/ \E t \in Tokens, id \in 1..nextTimesheet : DeleteTimesheet(t, id)

SpecTimesheets == Init /\ [][NextTimesheets]_vars

\* --------------------------------------------------- user specification
\* Founders of organizations, accounts without one, and the admin routes
\* on users.
UsrUsers == 2
UsrOrgs == 2

UserSignups ==
    {<<"", TRUE, "staff", TRUE>>} \cup {<<"", FALSE, r, TRUE>> : r \in Roles}

UserUpdates ==
    {[role |-> r] : r \in Roles} \cup {[orgId |-> o] : o \in 0..(nextOrg - 1)}

NextUsers ==
    \/ \E i \in UserSignups :
          /\ nextUser <= UsrUsers
          /\ Signup(i[1], i[2], i[3], i[4])
          /\ nextOrg' <= UsrOrgs + 1
    \/ \E t \in Tokens, u \in 1..nextUser, upd \in UserUpdates :
          PutUser(t, u, upd)
    \/ \E t \in Tokens, u \in 1..nextUser, d \in BOOLEAN : DeleteUser(t, u, d)

SpecUsers == Init /\ [][NextUsers]_vars

\* -------------------------------------------------- index specification
\* Two founders and every create, update and delete route on projects,
\* timesheets and invite codes.
IdxUsers == 2
IdxProjects == 1
IdxEntries == 1
IdxCodes == 1

NextIndexes ==
    \/ /\ nextUser <= IdxUsers
       /\ Signup("", TRUE, "staff", TRUE)
    \/ /\ nextProject <= IdxProjects
       /\ \E t \in Tokens : PostProjects(t, {})
    \/ \E t \in Tokens, p \in 1..nextProject, o \in 0..(nextOrg - 1) :
          PutProject(t, p, [orgId |-> o])
    \/ \E t \in Tokens, p \in 1..nextProject : DeleteProject(t, p)
    \/ /\ nextTimesheet <= IdxEntries
       /\ \E t \in Tokens, b \in TimesheetBodies : PostTimesheets(t, b)
    \/ \E t \in Tokens, id \in 1..nextTimesheet, u \in authUsers :
          PutTimesheet(t, id, [userId |-> u])
    \/ \E t \in Tokens, id \in 1..nextTimesheet : DeleteTimesheet(t, id)
    \/ /\ nextCode <= IdxCodes
       /\ \E t \in Tokens : PostInviteCodes(t, NULL, NULL)
    \/ \E t \in Tokens, c \in 1..nextCode : ToggleInviteCode(t, c)
    \/ \E t \in Tokens, c \in 1..nextCode : DeleteInviteCode(t, c)

SpecIndexes == Init /\ [][NextIndexes]_vars

\* ------------------------------------------------- limits specification
\* One organization and codes created with any number as maxUses: the
\* route stores whatever truthy maxUses the body carries.
LimUsers == 2
LimCodes == 1

AnyMaxUses == {-1, NULL, 1}

NextLimits ==
    \/ \E i \in InviteSignups :
          /\ i[1] = "" => organizations = <<>>
          /\ Signup(i[1], i[2], i[3], i[4])
          /\ nextUser' <= LimUsers + 1
    \/ /\ nextCode <= LimCodes
       /\ \E t \in Tokens, m \in AnyMaxUses : PostInviteCodes(t, NULL, m)
    \/ \E t \in Tokens, c \in 1..nextCode : ToggleInviteCode(t, c)
    \/ \E t \in Tokens, c \in 1..nextCode : DeleteInviteCode(t, c)

SpecLimits == Init /\ [][NextLimits]_vars

\* ------------------------------------------- interleaved timesheet routes
\* Each request runs from one store call to the next; other requests run
\* in between.  procs lists the requests of the behaviour in the order they
\* arrived: the route, the caller, the entry id, the index list the request
\* read, where it stands (pc) and, once answered, its status.
RaceUsers == 1
RaceRequests == 3

Request(op, token, id, pc, status) ==
    [op |-> op, token |-> token, id |-> id, list |-> <<>>, pc |-> pc,
     status |-> status]

raceFrame == <<now, authUsers, users, organizations, inviteCodes, projects,
               userOrg, orgUsers, orgsUsers, orgInviteCodes, orgProjects,
               nextUser, nextOrg, nextCode, nextProject>>

\* POST /timesheets up to its first store call: kv.set of the entry
PostTimesheetsBegin(token, body) ==
    /\ Len(procs) < RaceRequests
    /\ UNCHANGED <<raceFrame, userTimesheets>>
    /\ IF verifyUser(token) = NULL
       THEN /\ procs' = Append(procs,
                          Request("postTimesheets", token, NULL, "done", 401))
            /\ resp' = Resp("postTimesheets", 401, "Unauthorized",
                            <<token, NULL>>, {})
            /\ UNCHANGED <<timesheets, nextTimesheet>>
       ELSE /\ nextTimesheet' = nextTimesheet + 1
            /\ timesheets' = KvSet(timesheets, nextTimesheet,
                                   NewTimesheet(nextTimesheet, token, body))
            /\ procs' = Append(procs, Request("postTimesheets", token,
                                              nextTimesheet, "readIndex", 0))
            /\ UNCHANGED resp

\* kv.get of user-timesheets, in POST and in DELETE
ReadIndex(p) ==
    /\ procs[p].pc = "readIndex"
    /\ procs' = [procs EXCEPT
                    ![p].list = GetList(userTimesheets, procs[p].token),
                    ![p].pc = "writeIndex"]
    /\ UNCHANGED <<raceFrame, timesheets, userTimesheets, nextTimesheet, resp>>

\* an append to the list the store holds when the write runs
PostTimesheetsWriteFresh(p) ==
    /\ procs[p].op = "postTimesheets" /\ procs[p].pc = "writeIndex"
    /\ userTimesheets' = KvSet(userTimesheets, procs[p].token,
                               Append(GetList(userTimesheets, procs[p].token),
                                      procs[p].id))
    /\ procs' = [procs EXCEPT ![p].pc = "done", ![p].status = 200]
    /\ resp' = Resp("postTimesheets", 200, "",
                    <<procs[p].token, procs[p].id>>, {})
    /\ UNCHANGED <<raceFrame, timesheets, nextTimesheet>>

\* POST /timesheets: kv.set of the list read, with the new id appended
PostTimesheetsWrite(p) ==
    /\ procs[p].op = "postTimesheets" /\ procs[p].pc = "writeIndex"
    /\ userTimesheets' = KvSet(userTimesheets, procs[p].token,
                               Append(procs[p].list, procs[p].id))
    /\ procs' = [procs EXCEPT ![p].pc = "done", ![p].status = 200]
    /\ resp' = Resp("postTimesheets", 200, "",
                    <<procs[p].token, procs[p].id>>, {})
    /\ UNCHANGED <<raceFrame, timesheets, nextTimesheet>>

\* DELETE /timesheets/:timesheetId up to its checks on the entry read
DeleteTimesheetBegin(token, timesheetId) ==
    /\ Len(procs) < RaceRequests
    /\ UNCHANGED <<raceFrame, timesheets, userTimesheets, nextTimesheet>>
    /\ IF TimesheetGate(token, timesheetId) # 200
       THEN /\ procs' = Append(procs,
                   Request("deleteTimesheet", token, timesheetId, "done",
                           TimesheetGate(token, timesheetId)))
            /\ resp' = Resp("deleteTimesheet",
                   TimesheetGate(token, timesheetId),
                   TimesheetGateError(TimesheetGate(token, timesheetId)),
                   <<token, timesheetId>>, {})
       ELSE /\ procs' = Append(procs, Request("deleteTimesheet", token,
                                              timesheetId, "delEntry", 0))
            /\ UNCHANGED resp

\* DELETE /timesheets/:timesheetId: kv.del of the entry
DeleteTimesheetDel(p) ==
    /\ procs[p].pc = "delEntry"
    /\ timesheets' = KvDel(timesheets, procs[p].id)
    /\ procs' = [procs EXCEPT ![p].pc = "readIndex"]
    /\ UNCHANGED <<raceFrame, userTimesheets, nextTimesheet, resp>>

\* DELETE /timesheets/:timesheetId: kv.set of the list read, id filtered out
DeleteTimesheetWrite(p) ==
    /\ procs[p].op = "deleteTimesheet" /\ procs[p].pc = "writeIndex"
    /\ userTimesheets' = KvSet(userTimesheets, procs[p].token,
                               FilterOut(procs[p].list, procs[p].id))
    /\ procs' = [procs EXCEPT ![p].pc = "done", ![p].status = 200]
    /\ resp' = Resp("deleteTimesheet", 200, "",
                    <<procs[p].token, procs[p].id>>, {})
    /\ UNCHANGED <<raceFrame, timesheets, nextTimesheet>>

\* the ids a client can name: those a POST has answered with, and one that
\* no entry has
KnownEntries ==
    {procs[p].id : p \in {q \in DOMAIN procs :
                              /\ procs[q].op = "postTimesheets"
                              /\ procs[q].pc = "done"
                              /\ procs[q].status = 200}}
        \cup {nextTimesheet}

NextRace ==
    \/ /\ nextUser <= RaceUsers
       /\ Signup("", FALSE, "staff", TRUE)
    \/ \E t \in Tokens, b \in TimesheetBodies : PostTimesheetsBegin(t, b)
    \/ \E t \in Tokens, id \in KnownEntries : DeleteTimesheetBegin(t, id)
    \/ \E p \in DOMAIN procs : ReadIndex(p)
    \/ \E p \in DOMAIN procs : PostTimesheetsWrite(p)
    \/ \E p \in DOMAIN procs : DeleteTimesheetDel(p)
    \/ \E p \in DOMAIN procs : DeleteTimesheetWrite(p)

SpecRace == Init /\ [][NextRace]_vars

\* the interleaved timesheet routes, and the owner listing their entries
NextAppendRace ==
    \/ NextRace
    \/ \E t \in authUsers : GetTimesheets(t, NULL)

SpecAppendRace == Init /\ [][NextAppendRace]_vars

\* --------------------------------------------------- interleaved signups
\* POST /signup with an invite code, one action per awaited call.  procs
\* lists the signups in the order they arrived: the new account (id), the
\* code string of the body, the record codes.find returned (validCode),
\* the org-users list read, where the request stands and its status.
SigRequests == 3

\* what a request holds for the code before its lookup has returned one
NoCode == [id |-> NULL]

SignupRequest(userId, inviteCode) ==
    [op |-> "signup", id |-> userId, code |-> inviteCode,
     validCode |-> NoCode, list |-> <<>>, pc |-> "findCode", status |-> 0]

signupFrame == <<now, organizations, projects, timesheets, orgsUsers,
                 orgInviteCodes, orgProjects, userTimesheets, nextOrg,
                 nextCode, nextProject, nextTimesheet>>

\* auth.admin.createUser: the account exists before the code is looked at
SignupBegin(inviteCode) ==
    /\ Len(procs) < SigRequests
    /\ inviteCode # ""
    /\ authUsers' = CreateIdentity(authUsers, nextUser)
    /\ nextUser' = nextUser + 1
    /\ procs' = Append(procs, SignupRequest(nextUser, inviteCode))
    /\ UNCHANGED <<signupFrame, users, inviteCodes, userOrg, orgUsers, resp>>

\* kv.getByPrefix('invite-codes:') and codes.find
SignupFind(p) ==
    /\ procs[p].pc = "findCode"
    /\ UNCHANGED <<signupFrame, nextUser, users, inviteCodes, userOrg,
                   orgUsers>>
    /\ LET valid == {c \in GetByPrefix(inviteCodes) :
                         SignupValid(c, procs[p].code, now)}
       IN IF valid = {}
          THEN /\ authUsers' = DeleteIdentity(authUsers, procs[p].id)
               /\ procs' = [procs EXCEPT ![p].pc = "done",
                                         ![p].status = 400]
               /\ resp' = Resp("signup", 400,
                               "Invalid or expired invite code",
                               procs[p].code, {})
          ELSE \E validCode \in valid :
               /\ procs' = [procs EXCEPT ![p].validCode = validCode,
                                         ![p].pc = "setCode"]
               /\ UNCHANGED <<authUsers, resp>>

\* an increment applied to the record the store holds when the write runs
CodeWrittenFresh(p) == RedeemedCode(inviteCodes[procs[p].validCode.id])

\* the record the request writes back: the one it read, currentUses + 1
CodeWritten(p) == RedeemedCode(procs[p].validCode)

\* kv.set of the invite code
SignupSetCode(p) ==
    /\ procs[p].pc = "setCode"
    /\ inviteCodes' = KvSet(inviteCodes, procs[p].validCode.id,
                            CodeWritten(p))
    /\ procs' = [procs EXCEPT ![p].pc = "setUser"]
    /\ UNCHANGED <<signupFrame, authUsers, nextUser, users, userOrg,
                   orgUsers, resp>>

\* kv.set of the user record, then if (orgId)
SignupSetUser(p) ==
    /\ procs[p].pc = "setUser"
    /\ users' = KvSet(users, procs[p].id,
                      InviteUser(procs[p].id, procs[p].validCode, "staff"))
    /\ UNCHANGED <<signupFrame, authUsers, nextUser, inviteCodes, userOrg,
                   orgUsers>>
    /\ IF procs[p].validCode.orgId # NULL
       THEN /\ procs' = [procs EXCEPT ![p].pc = "setUserOrg"]
            /\ UNCHANGED resp
       ELSE /\ procs' = [procs EXCEPT ![p].pc = "done", ![p].status = 200]
            /\ resp' = Resp("signup", 200, "", procs[p].code, {})

\* kv.set of user-org
SignupSetUserOrg(p) ==
    /\ procs[p].pc = "setUserOrg"
    /\ userOrg' = KvSet(userOrg, procs[p].id, procs[p].validCode.orgId)
    /\ procs' = [procs EXCEPT ![p].pc = "readOrgUsers"]
    /\ UNCHANGED <<signupFrame, authUsers, nextUser, users, inviteCodes,
                   orgUsers, resp>>

\* kv.get of org-users
SignupReadOrgUsers(p) ==
    /\ procs[p].pc = "readOrgUsers"
    /\ procs' = [procs EXCEPT
                    ![p].list = GetList(orgUsers, procs[p].validCode.orgId),
                    ![p].pc = "writeOrgUsers"]
    /\ UNCHANGED <<signupFrame, authUsers, nextUser, users, inviteCodes,
                   userOrg, orgUsers, resp>>

\* kv.set of the list read with the new user appended, and the response
SignupWriteOrgUsers(p) ==
    /\ procs[p].pc = "writeOrgUsers"
    /\ orgUsers' = KvSet(orgUsers, procs[p].validCode.orgId,
                         Append(procs[p].list, procs[p].id))
    /\ procs' = [procs EXCEPT ![p].pc = "done", ![p].status = 200]
    /\ resp' = Resp("signup", 200, "", procs[p].code, {})
    /\ UNCHANGED <<signupFrame, authUsers, nextUser, users, inviteCodes,
                   userOrg>>

\* a founder, one invite code with a limit, and signups that run side by
\* side with the code's string in their body
NextSignupRace ==
    \/ /\ nextUser = 1
       /\ Signup("", TRUE, "admin", TRUE)
    \/ /\ nextCode = 1 /\ procs = <<>>
       /\ \E t \in authUsers, m \in MaxUsesInputs \ {NULL} :
              PostInviteCodes(t, NULL, m)
    \/ \E c \in {inviteCodes[i].code : i \in DOMAIN inviteCodes} :
           SignupBegin(c)
    \/ \E p \in DOMAIN procs : SignupFind(p)
    \/ \E p \in DOMAIN procs : SignupSetCode(p)
    \/ \E p \in DOMAIN procs : SignupSetUser(p)
    \/ \E p \in DOMAIN procs : SignupSetUserOrg(p)
    \/ \E p \in DOMAIN procs : SignupReadOrgUsers(p)
    \/ \E p \in DOMAIN procs : SignupWriteOrgUsers(p)

SpecSignupRace == Init /\ [][NextSignupRace]_vars

\* ------------------------------- signups beside toggles and deletions
\* PUT /invite-codes/:codeId/toggle and DELETE /invite-codes/:codeId, one
\* action per store write, beside the interleaved signups.  A request of
\* these two routes is listed in procs with its caller (token), the code id
\* of its path (id), the record its kv.get returned (validCode) and the
\* org-invite-codes list it read.
CrRequests == 2

CodeRequest(op, token, codeId, inviteCode, pc, status) ==
    [op |-> op, token |-> token, id |-> codeId, validCode |-> inviteCode,
     list |-> <<>>, pc |-> pc, status |-> status]

codeFrame == <<now, authUsers, users, organizations, projects, timesheets,
               userOrg, orgUsers, orgsUsers, orgProjects, userTimesheets,
               idVars>>

\* the toggle up to its kv.get of the code and the checks on it
ToggleBegin(token, codeId) ==
    /\ Len(procs) < CrRequests
    /\ UNCHANGED <<codeFrame, inviteCodes, orgInviteCodes>>
    /\ IF CodeGate(token, codeId) # 200
       THEN /\ procs' = Append(procs,
                   CodeRequest("toggleInviteCode", token, codeId, NoCode,
                               "done", CodeGate(token, codeId)))
            /\ resp' = Resp("toggleInviteCode", CodeGate(token, codeId),
                            CodeGateError(token, codeId), token, {})
       ELSE /\ procs' = Append(procs,
                   CodeRequest("toggleInviteCode", token, codeId,
                               inviteCodes[codeId], "setToggled", 0))
            /\ UNCHANGED resp

\* the toggle's kv.set of the record it read with isActive negated
ToggleWrite(p) ==
    /\ procs[p].pc = "setToggled"
    /\ inviteCodes' = KvSet(inviteCodes, procs[p].id,
                            ToggledCode(procs[p].validCode))
    /\ procs' = [procs EXCEPT ![p].pc = "done", ![p].status = 200]
    /\ resp' = Resp("toggleInviteCode", 200, "", procs[p].token, {})
    /\ UNCHANGED <<codeFrame, orgInviteCodes>>

\* the deletion up to its kv.get of the code and the checks on it
DeleteCodeBegin(token, codeId) ==
    /\ Len(procs) < CrRequests
    /\ UNCHANGED <<codeFrame, inviteCodes, orgInviteCodes>>
    /\ IF CodeGate(token, codeId) # 200
       THEN /\ procs' = Append(procs,
                   CodeRequest("deleteInviteCode", token, codeId, NoCode,
                               "done", CodeGate(token, codeId)))
            /\ resp' = Resp("deleteInviteCode", CodeGate(token, codeId),
                            CodeGateError(token, codeId), token, {})
       ELSE /\ procs' = Append(procs,
                   CodeRequest("deleteInviteCode", token, codeId,
                               inviteCodes[codeId], "delCode", 0))
            /\ UNCHANGED resp

\* kv.del of the code
DeleteCodeDel(p) ==
    /\ procs[p].pc = "delCode"
    /\ inviteCodes' = KvDel(inviteCodes, procs[p].id)
    /\ procs' = [procs EXCEPT ![p].pc = "readCodeIndex"]
    /\ UNCHANGED <<codeFrame, orgInviteCodes, resp>>

\* kv.get of org-invite-codes
DeleteCodeReadIndex(p) ==
    /\ procs[p].pc = "readCodeIndex"
    /\ procs' = [procs EXCEPT
                    ![p].list = GetList(orgInviteCodes,
                                        users[procs[p].token].orgId),
                    ![p].pc = "writeCodeIndex"]
    /\ UNCHANGED <<codeFrame, inviteCodes, orgInviteCodes, resp>>

\* kv.set of the list read with the id filtered out, and the response
DeleteCodeWriteIndex(p) ==
    /\ procs[p].pc = "writeCodeIndex"
    /\ orgInviteCodes' = KvSet(orgInviteCodes, users[procs[p].token].orgId,
                               FilterOut(procs[p].list, procs[p].id))
    /\ procs' = [procs EXCEPT ![p].pc = "done", ![p].status = 200]
    /\ resp' = Resp("deleteInviteCode", 200, "", procs[p].token, {})
    /\ UNCHANGED <<codeFrame, inviteCodes>>

\* a founder and one invite code, then the clock, signups with the code's
\* string, and toggles and deletions of the code, side by side
NextCodeRace ==
    \/ /\ nextUser = 1
       /\ Signup("", TRUE, "admin", TRUE)
    \/ /\ nextCode = 1 /\ procs = <<>>
       /\ \E t \in authUsers, d \in ExpiresInDaysInputs,
             m \in {NULL, 1} : PostInviteCodes(t, d, m)
    \/ ExpiryAhead /\ Tick
    \/ /\ Len(procs) < CrRequests
       /\ \E c \in {inviteCodes[i].code : i \in DOMAIN inviteCodes} :
              SignupBegin(c)
    \/ \E p \in DOMAIN procs : SignupFind(p)
    \/ \E p \in DOMAIN procs : SignupSetCode(p)
    \/ \E p \in DOMAIN procs : SignupSetUser(p)
    \/ \E p \in DOMAIN procs : SignupSetUserOrg(p)
    \/ \E p \in DOMAIN procs : SignupReadOrgUsers(p)
    \/ \E p \in DOMAIN procs : SignupWriteOrgUsers(p)
    \/ \E t \in authUsers, c \in 1..(nextCode - 1) : ToggleBegin(t, c)
    \/ \E p \in DOMAIN procs : ToggleWrite(p)
    \/ \E t \in authUsers, c \in 1..(nextCode - 1) :
           DeleteCodeBegin(t, c)
    \/ \E p \in DOMAIN procs : DeleteCodeDel(p)
    \/ \E p \in DOMAIN procs : DeleteCodeReadIndex(p)
    \/ \E p \in DOMAIN procs : DeleteCodeWriteIndex(p)

SpecCodeRace == Init /\ [][NextCodeRace]_vars

\* ------------------------------------------- creates with a failing store
\* The create routes in the run where the store throws on the index write
\* (kv.get or kv.set of the index list) after the record's kv.set returned.
CfCodes == 2
CfProjects == 2
CfEntries == 2

\* a handler that undoes the record write when the index write throws
PostProjectsIndexFailsRollback(token, assignedUsers) ==
    /\ AdminGate(token) = 200
    /\ nextProject' = nextProject + 1
    /\ resp' = Resp("postProjects", 500, "Failed to create project", token, {})
    /\ UNCHANGED <<now, authUsers, procs, kvVars, nextUser, nextOrg, nextCode,
                   nextTimesheet>>

\* POST /projects: the throw reaches the handler's catch
PostProjectsIndexFails(token, assignedUsers) ==
    /\ AdminGate(token) = 200
    /\ nextProject' = nextProject + 1
    /\ projects' = KvSet(projects, nextProject,
                         [id |-> nextProject, orgId |-> users[token].orgId,
                          assignedUsers |-> assignedUsers,
                          createdBy |-> token])
    /\ resp' = Resp("postProjects", 500, "Failed to create project", token, {})
    /\ UNCHANGED <<now, authUsers, procs, users, organizations, inviteCodes,
                   timesheets, userOrg, orgUsers, orgsUsers, orgInviteCodes,
                   orgProjects, userTimesheets, nextUser, nextOrg, nextCode,
                   nextTimesheet>>

\* POST /timesheets: the throw reaches the handler's catch
PostTimesheetsIndexFails(token, body) ==
    /\ verifyUser(token) # NULL
    /\ nextTimesheet' = nextTimesheet + 1
    /\ timesheets' = KvSet(timesheets, nextTimesheet,
                           NewTimesheet(nextTimesheet, token, body))
    /\ resp' = Resp("postTimesheets", 500, "Failed to create timesheet entry",
                    <<token, nextTimesheet>>, {})
    /\ UNCHANGED <<now, authUsers, procs, users, organizations, inviteCodes,
                   projects, userOrg, orgUsers, orgsUsers, orgInviteCodes,
                   orgProjects, userTimesheets, nextUser, nextOrg, nextCode,
                   nextProject>>

\* POST /invite-codes: the index write has a try/catch of its own that logs
\* the error ("Don't fail the whole operation if this fails")
PostInviteCodesIndexFails(token, expiresInDays, maxUses) ==
    /\ AdminGate(token) = 200
    /\ nextCode' = nextCode + 1
    /\ \E code \in CodeStrings :
          inviteCodes' = KvSet(inviteCodes, nextCode,
              [id |-> nextCode, code |-> code, orgId |-> users[token].orgId,
               expiresAt |-> IF expiresInDays > 0 THEN now + expiresInDays
                             ELSE NULL,
               maxUses |-> maxUses, currentUses |-> 0, isActive |-> TRUE])
    /\ resp' = Resp("postInviteCodes", 200, "", token, {})
    /\ UNCHANGED <<now, authUsers, procs, users, organizations, projects,
                   timesheets, userOrg, orgUsers, orgsUsers, orgInviteCodes,
                   orgProjects, userTimesheets, nextUser, nextOrg,
                   nextProject, nextTimesheet>>

\* a founder who creates codes, projects and entries, the store failing on
\* the index write of some of the requests
NextCreateFail ==
    \/ /\ nextUser = 1
       /\ Signup("", TRUE, "admin", TRUE)
    \/ /\ nextCode <= CfCodes
       /\ \E t \in authUsers : PostInviteCodes(t, NULL, 1)
    \/ /\ nextCode <= CfCodes
       /\ \E t \in authUsers : PostInviteCodesIndexFails(t, NULL, 1)
    \/ /\ nextProject <= CfProjects
       /\ \E t \in authUsers : PostProjects(t, {t})
    \/ /\ nextProject <= CfProjects
       /\ \E t \in authUsers : PostProjectsIndexFails(t, {t})
    \/ /\ nextTimesheet <= CfEntries
       /\ \E t \in authUsers, b \in TimesheetBodies : PostTimesheets(t, b)
    \/ /\ nextTimesheet <= CfEntries
       /\ \E t \in authUsers, b \in TimesheetBodies :
              PostTimesheetsIndexFails(t, b)

SpecCreateFail == Init /\ [][NextCreateFail]_vars

\* ------------------------------------------------- tenant specification
\* Two organizations, each with its founder and a project, and the admin
\* routes that write user and project records, with bodies that leave
\* orgId alone.
TenOrgs == 2
TenProjects == 2

NextTenants ==
    \/ /\ nextOrg <= TenOrgs
       /\ Signup("", TRUE, "admin", TRUE)
    \/ /\ nextProject <= TenProjects
       /\ \E t \in authUsers : PostProjects(t, {})
    \/ \E t \in authUsers, u \in DOMAIN users :
          PutUser(t, u, [role |-> "staff"])
    \/ \E t \in authUsers, u \in DOMAIN users : DeleteUser(t, u, TRUE)
    \/ \E t \in authUsers, p \in DOMAIN projects :
          PutProject(t, p, [assignedUsers |-> {t}])
    \/ \E t \in authUsers, p \in DOMAIN projects : DeleteProject(t, p)

SpecTenants == Init /\ [][NextTenants]_vars

\* -------------------------------------------- public validity checks
\* A response of these two routes carries valid: true as an empty err and
\* the organization id in out; valid: false as the error text.

\* GET /verify-invite-code/:code.  codes.find returns the first record with
\* the code string in the order the store lists them, which the store does
\* not fix: inviteCode is any record with the string.
VerifyInviteCodeGet(code) ==
    /\ UNCHANGED readFrame
    /\ LET matching == {c \in GetByPrefix(inviteCodes) : c.code = code}
       IN IF code = ""
          THEN resp' = Resp("verifyInviteCodeGet", 200,
                            "No invite code provided", code, {})
          ELSE IF matching = {}
          THEN resp' = Resp("verifyInviteCodeGet", 200,
                            "Invalid invite code", code, {})
          ELSE \E inviteCode \in matching :
               IF ~inviteCode.isActive
               THEN resp' = Resp("verifyInviteCodeGet", 200,
                        "This invite code has been deactivated", code, {})
               ELSE IF inviteCode.expiresAt # NULL
                       /\ inviteCode.expiresAt < now
               THEN resp' = Resp("verifyInviteCodeGet", 200,
                        "This invite code has expired", code, {})
               ELSE IF inviteCode.maxUses # NULL
                       /\ inviteCode.currentUses >= inviteCode.maxUses
               THEN resp' = Resp("verifyInviteCodeGet", 200,
                        "This invite code has reached its maximum number of uses",
                        code, {})
               ELSE IF inviteCode.orgId \notin DOMAIN organizations
               THEN resp' = Resp("verifyInviteCodeGet", 200,
                        "Organization not found", code, {})
               ELSE resp' = Resp("verifyInviteCodeGet", 200, "", code,
                                 {inviteCode.orgId})

\* the predicate of allCodes.find in POST /verify-invite-code
VerifyValid(c, code, t) ==
    /\ c.code = code
    /\ c.isActive = TRUE
    /\ (c.expiresAt = NULL \/ c.expiresAt > t)
    /\ (c.maxUses = NULL \/ c.currentUses < c.maxUses)

\* POST /verify-invite-code
VerifyInviteCodePost(code) ==
    /\ UNCHANGED readFrame
    /\ LET allCodes == GetByPrefix(inviteCodes)
           valid == {c \in allCodes : VerifyValid(c, code, now)}
       IN IF code = ""
          THEN resp' = Resp("verifyInviteCodePost", 200,
                            "No invite code provided", code, {})
          ELSE IF allCodes = {}
          THEN resp' = Resp("verifyInviteCodePost", 200,
                            "No invite codes found in system", code, {})
          ELSE IF valid = {}
          THEN resp' = Resp("verifyInviteCodePost", 200,
                            "Invalid or expired invite code", code, {})
          ELSE \E validCode \in valid :
               resp' = Resp("verifyInviteCodePost", 200, "", code,
                            {validCode.orgId})

\* a founder, an account with role 'admin' and no organization, codes with
\* and without expiry, the clock, toggles, and the two validity checks
VerCodes == 2

VerifySignups == {<<"", TRUE, "admin", TRUE>>, <<"", FALSE, "admin", TRUE>>}

NextVerify ==
    \/ \E i \in VerifySignups :
          /\ nextUser = 1
          /\ Signup(i[1], i[2], i[3], i[4])
    \/ /\ nextCode <= VerCodes
       /\ \E t \in authUsers, d \in ExpiresInDaysInputs :
             PostInviteCodes(t, d, NULL)
    \/ ExpiryAhead /\ Tick
    \/ \E t \in authUsers, c \in DOMAIN inviteCodes : ToggleInviteCode(t, c)
    \/ \E code \in CodeStrings : VerifyInviteCodeGet(code)
    \/ \E code \in CodeStrings : VerifyInviteCodePost(code)

SpecVerify == Init /\ [][NextVerify]_vars

\* ------------------------------------------ routes that list invite codes
\* The two test routes ask for no credential; a response records the
\* caller as NULL and carries in out the ids of the code records returned.

\* GET /test-codes: every row whose key starts with 'invite-codes:'
TestCodes ==
    /\ UNCHANGED readFrame
    /\ resp' = Resp("testCodes", 200, "", <<NULL>>,
                    {c.id : c \in GetByPrefix(inviteCodes)})

\* GET /test-code/:code: the record found, or code, id and orgId of all
TestCode(code) ==
    /\ UNCHANGED readFrame
    /\ LET allCodes == GetByPrefix(inviteCodes)
           matching == {c \in allCodes : c.code = code}
       IN IF matching # {}
          THEN \E foundCode \in matching :
                   resp' = Resp("testCode", 200, "", <<NULL, code>>,
                                {foundCode.id})
          ELSE resp' = Resp("testCode", 200, "", <<NULL, code>>,
                            {c.id : c \in allCodes})

\* founders of organizations, their invite codes, and the routes that
\* answer with invite-code records
CrdOrgs == 2
CrdCodes == 2

NextCodeRead ==
    \/ /\ nextOrg <= CrdOrgs
       /\ Signup("", TRUE, "admin", TRUE)
    \/ /\ nextCode <= CrdCodes
       /\ \E t \in authUsers : PostInviteCodes(t, NULL, NULL)
    \/ \E t \in Tokens, o \in DOMAIN organizations : GetInviteCodes(t, o)
    \/ TestCodes
    \/ \E code \in CodeStrings : TestCode(code)

SpecCodeRead == Init /\ [][NextCodeRead]_vars

\* ------------------------------------------------- access specification
\* Every protected route, called with no credential (NULL), with a
\* credential of no account and with the credential of the one account there
\* is: the founder of an organization, who creates at most one invite code
\* and one project, and timesheet entries.
AccEntries == 1

\* credentials a request carries; nextUser is an id no account has
Credentials == 0..nextUser

\* orgId path parameters: the organizations and an id of none
OrgParams == 1..nextOrg

NextAccess ==
    \/ /\ nextUser = 1
       /\ Signup("", TRUE, "staff", TRUE)
    \/ /\ nextCode = 1
       /\ \E t \in Credentials : PostInviteCodes(t, NULL, NULL)
    \/ \E t \in Credentials, o \in OrgParams : GetInviteCodes(t, o)
    \/ \E t \in Credentials : ToggleInviteCode(t, 1)
    \/ \E t \in Credentials : DeleteInviteCode(t, 1)
    \/ \E t \in Credentials, o \in OrgParams : GetOrganization(t, o)
    \/ \E t \in Credentials : GetMe(t)
    \/ \E t \in Credentials : PutMe(t, [role |-> "staff"])
    \/ \E t \in Credentials, o \in OrgParams : GetOrgUsers(t, o)
    \/ \E t \in Credentials : PutUser(t, 1, [orgId |-> NULL])
    \/ \E t \in Credentials : DeleteUser(t, 1, TRUE)
    \/ /\ nextProject = 1
       /\ \E t \in Credentials : PostProjects(t, {})
    \/ \E t \in Credentials : GetProjects(t)
    \/ \E t \in Credentials : PutProject(t, 1, [assignedUsers |-> authUsers])
    \/ \E t \in Credentials : DeleteProject(t, 1)
    \/ /\ nextTimesheet <= AccEntries
       /\ \E t \in Credentials, b \in TimesheetBodies : PostTimesheets(t, b)
    \/ \E t \in Credentials : GetTimesheets(t, NULL)
    \/ \E t \in Credentials, o \in OrgParams : GetOrgTimesheets(t, o, NULL)
    \/ \E t \in Credentials, id \in 1..nextTimesheet :
          PutTimesheet(t, id, [endTime |-> 30])
    \/ \E t \in Credentials, id \in 1..nextTimesheet : DeleteTimesheet(t, id)
    \/ \E t \in Credentials, ok \in BOOLEAN : UploadPhoto(t, ok)

SpecAccess == Init /\ [][NextAccess]_vars

\* -------------------------------------------------- admin specification
\* One organization: its founder and staff who join by invite code; every
\* admin-only write route; at most one invite code and one project.
AdmUsers == 2

AdminSignups ==
    {<<"", TRUE, "staff", TRUE>>} \cup (CodeStrings \X {FALSE} \X {"admin"} \X {TRUE})

NextAdmin ==
    \/ \E i \in AdminSignups :
          /\ i[2] => organizations = <<>>
          /\ Signup(i[1], i[2], i[3], i[4])
          /\ nextUser' <= AdmUsers + 1
    \/ /\ nextCode = 1
       /\ \E t \in Tokens : PostInviteCodes(t, NULL, NULL)
    \/ \E t \in Tokens : ToggleInviteCode(t, 1)
    \/ \E t \in Tokens : DeleteInviteCode(t, 1)
    \/ \E t \in Tokens, u \in 1..nextUser :
          PutUser(t, u, [role |-> "staff"])
    \/ \E t \in Tokens, u \in 1..nextUser : DeleteUser(t, u, TRUE)
    \/ /\ nextProject = 1
       /\ \E t \in Tokens : PostProjects(t, {})
    \/ \E t \in Tokens : PutProject(t, 1, [assignedUsers |-> authUsers])
    \/ \E t \in Tokens : DeleteProject(t, 1)

SpecAdmin == Init /\ [][NextAdmin]_vars

\* ------------------------------------- organization-read specification
\* Founders of organizations and accounts without one; invite codes and
\* timesheet entries; the four routes whose path carries an orgId, called
\* with the id of every organization there is.
RdUsers == 2
RdCodes == 1
RdEntries == 1

NextOrgRead ==
    \/ \E i \in UserSignups :
          /\ nextUser <= RdUsers
          /\ Signup(i[1], i[2], i[3], i[4])
    \/ /\ nextCode <= RdCodes
       /\ \E t \in Tokens : PostInviteCodes(t, NULL, NULL)
    \/ /\ nextTimesheet <= RdEntries
       /\ \E t \in Tokens, b \in TimesheetBodies : PostTimesheets(t, b)
    \/ \E t \in Tokens, o \in DOMAIN organizations : GetOrganization(t, o)
    \/ \E t \in Tokens, o \in DOMAIN organizations : GetOrgUsers(t, o)
    \/ \E t \in Tokens, o \in DOMAIN organizations : GetOrgTimesheets(t, o, NULL)
    \/ \E t \in Tokens, o \in DOMAIN organizations : GetInviteCodes(t, o)

SpecOrgRead == Init /\ [][NextOrgRead]_vars

\* ------------------------------------------------ profile specification
\* Founders of organizations, accounts without one, and the profile routes.
ProUsers == 2

\* PUT /users/me payloads: a name, and payloads that carry role, orgId, id
ProfileUpdates ==
    {[name |-> "Ann"]}
        \cup {[role |-> r] : r \in Roles}
        \cup {[orgId |-> o] : o \in 0..nextOrg}
        \cup {[id |-> i] : i \in 1..nextUser}
        \cup {[name |-> "Bob", role |-> r, orgId |-> nextOrg, id |-> nextUser] :
                 r \in Roles}

NextProfile ==
    \/ \E i \in UserSignups :
          /\ nextUser <= ProUsers
          /\ Signup(i[1], i[2], i[3], i[4])
    \/ \E t \in Tokens : GetMe(t)
    \/ \E t \in Tokens, upd \in ProfileUpdates : PutMe(t, upd)

SpecProfile == Init /\ [][NextProfile]_vars

\* ------------------------------------------- user-deletion specification
\* Founders of organizations, accounts without one, and DELETE /users.
DelUsers == 2

NextDelete ==
    \/ \E i \in UserSignups :
          /\ nextUser <= DelUsers
          /\ Signup(i[1], i[2], i[3], i[4])
    \/ \E t \in Tokens, u \in 1..nextUser, d \in BOOLEAN : DeleteUser(t, u, d)

SpecDelete == Init /\ [][NextDelete]_vars

\* ------------------------------------------------------------ claims
\* the stored codes that carry the string s
Matching(s) == {c \in GetByPrefix(inviteCodes) : c.code = s}

\* active, not expired, uses remaining
Redeemable(c) ==
    /\ c.isActive
    /\ (c.expiresAt = NULL \/ c.expiresAt > now)
    /\ (c.maxUses = NULL \/ c.currentUses < c.maxUses)

\* the states the claim names as closed for redemption
Refused(c) ==
    \/ ~c.isActive
    \/ (c.expiresAt # NULL /\ now > c.expiresAt)
    \/ (c.maxUses # NULL /\ c.currentUses = c.maxUses)

\* the codes whose stored record a step changes
ChangedCodes ==
    {k \in DOMAIN inviteCodes :
        k \notin DOMAIN inviteCodes' \/ inviteCodes'[k] # inviteCodes[k]}

\* a step that handled a signup which supplied an invite code and whose
\* account the identity provider accepted
InviteSignupStep ==
    /\ resp'.op = "signup"
    /\ resp'.arg # ""
    /\ resp'.err # "identity"

\* C1: a signup that supplies the string of an active, unexpired code with
\* uses remaining stores a user record with role 'staff' whose orgId is the
\* orgId of the redeemed code, whatever role and organizationName the body
\* carries.
C1_InviteSignupJoinsCodeOrg ==
    [][( /\ InviteSignupStep
         /\ \E c \in Matching(resp'.arg) : Redeemable(c) )
        => /\ resp'.status = 200
           /\ DOMAIN users' = DOMAIN users \cup {nextUser}
           /\ nextUser \notin DOMAIN users
           /\ users'[nextUser].role = "staff"
           /\ users'[nextUser].id = nextUser
           /\ \E c \in Matching(resp'.arg) :
                 /\ Redeemable(c)
                 /\ ChangedCodes = {c.id}
                 /\ users'[nextUser].orgId = c.orgId]_vars

\* a user who joined an organization as staff through a used code
C1_Witness ==
    /\ resp.op = "signup" /\ resp.status = 200
    /\ resp.arg # ""
    /\ \E u \in DOMAIN users, c \in DOMAIN inviteCodes :
          /\ u = nextUser - 1
          /\ users[u].role = "staff"
          /\ users[u].orgId # NULL
          /\ users[u].orgId = inviteCodes[c].orgId
          /\ inviteCodes[c].code = resp.arg
          /\ inviteCodes[c].currentUses > 0
          /\ Count(GetList(orgUsers, users[u].orgId), u) = 1

\* C2: a successful redemption leaves currentUses of the redeemed code one
\* greater and every other field and code as it was, and a signup is refused
\* when every code carrying the supplied string is exhausted, past its expiry
\* or inactive.
C2_RedemptionCountsAndRefusals ==
    [][InviteSignupStep
        => /\ resp'.status = 200 =>
                \E c \in Matching(resp'.arg) :
                    /\ ~Refused(c)
                    /\ ChangedCodes = {c.id}
                    /\ inviteCodes'[c.id] =
                          [inviteCodes[c.id] EXCEPT
                              !.currentUses = c.currentUses + 1]
           /\ (\A c \in Matching(resp'.arg) : Refused(c)) =>
                /\ resp'.status = 400
                /\ UNCHANGED kvVars]_vars

\* a used code, a refused signup, and a code no signup may redeem
C2_Witness ==
    /\ resp.op = "signup" /\ resp.status = 400
    /\ \E c \in DOMAIN inviteCodes :
          /\ inviteCodes[c].currentUses > 0
          /\ Refused(inviteCodes[c])

\* C3: every stored invite code with maxUses set has currentUses <= maxUses.
C3_UsesWithinLimit ==
    \A c \in DOMAIN inviteCodes :
        inviteCodes[c].maxUses # NULL =>
            inviteCodes[c].currentUses <= inviteCodes[c].maxUses

\* C4: once a code with maxUses = N has currentUses = N, a signup that
\* supplies its string (no other redeemable code carrying it) is answered
\* 400 'Invalid or expired invite code' and leaves the store and the
\* identity provider's accounts as they were.
C4_ExhaustedCodeRejected ==
    [][( /\ InviteSignupStep
         /\ \E c \in Matching(resp'.arg) :
               c.maxUses # NULL /\ c.currentUses = c.maxUses
         /\ \A c \in Matching(resp'.arg) : ~Redeemable(c) )
        => /\ resp'.status = 400
           /\ resp'.err = "Invalid or expired invite code"
           /\ UNCHANGED kvVars
           /\ UNCHANGED authUsers]_vars

\* a signup refused while a code stands at currentUses = maxUses
C4_Witness ==
    /\ resp.op = "signup" /\ resp.status = 400
    /\ resp.err = "Invalid or expired invite code"
    /\ \E c \in DOMAIN inviteCodes :
          /\ inviteCodes[c].maxUses # NULL
          /\ inviteCodes[c].currentUses = inviteCodes[c].maxUses
          /\ inviteCodes[c].isActive
          /\ \A d \in DOMAIN inviteCodes : ~Redeemable(inviteCodes[d])

\* C8: two toggles of a code by an admin of its organization store the
\* record the code had before them; one toggle changes isActive only.
C8_ToggleTwiceRestores ==
    \A t \in Tokens, c \in DOMAIN inviteCodes :
        CodeGate(t, c) = 200 =>
            LET once == ToggleStore(inviteCodes, c)
                twice == ToggleStore(once, c)
            IN /\ once[c].isActive = ~inviteCodes[c].isActive
               /\ [once[c] EXCEPT !.isActive = ~@] = inviteCodes[c]
               /\ once[c].orgId = users[t].orgId
               /\ twice = inviteCodes

\* a code that is active again right after a toggle, with uses recorded
C8_Witness ==
    /\ resp.op = "toggleInviteCode" /\ resp.status = 200
    /\ DOMAIN inviteCodes # {}
    /\ \A c \in DOMAIN inviteCodes :
          inviteCodes[c].isActive /\ inviteCodes[c].currentUses > 0

\* the ids a list-valued index names under key k
Listed(index, k) == {GetList(index, k)[n] : n \in DOMAIN GetList(index, k)}

\* C5: GET /projects answers a staff caller with exactly the projects of
\* the caller's org-projects list that name the caller in assignedUsers, and
\* an admin caller with exactly the projects of that list.
C5_ProjectListByRole ==
    [][( /\ resp'.op = "getProjects"
         /\ resp'.arg \in authUsers
         /\ resp'.arg \in DOMAIN users
         /\ users[resp'.arg].orgId # NULL )
        => LET caller == users[resp'.arg]
               listed == Listed(orgProjects, caller.orgId) \cap DOMAIN projects
           IN /\ resp'.status = 200
              /\ caller.role = "staff" =>
                    resp'.out = {p \in listed :
                                    resp'.arg \in projects[p].assignedUsers}
              /\ caller.role = "admin" => resp'.out = listed]_vars

\* a staff caller who is shown some of the organization's projects, not all
C5_Witness ==
    /\ resp.op = "getProjects" /\ resp.status = 200
    /\ resp.arg \in DOMAIN users
    /\ users[resp.arg].role = "staff"
    /\ resp.out # {}
    /\ \E p \in DOMAIN projects :
          /\ p \notin resp.out
          /\ p \in Listed(orgProjects, users[resp.arg].orgId)

\* the entries whose DELETE by the owner has been answered with success
DeletedEntries ==
    {<<procs[p].token, procs[p].id>> :
        p \in {q \in DOMAIN procs :
                  /\ procs[q].op = "deleteTimesheet"
                  /\ procs[q].pc = "done"
                  /\ procs[q].status = 200}}

\* C6: once a DELETE /timesheets/{id} by the owner has answered success, the
\* id is not in user-timesheets of the owner and no record is stored under
\* it, in every later state, other requests of the owner overlapping or not.
C6_DeletedEntryStaysGone ==
    \A d \in DeletedEntries :
        /\ d[2] \notin DOMAIN timesheets
        /\ d[2] \notin Listed(userTimesheets, d[1])

\* C7: PUT and DELETE /timesheets/{id} by a verified caller who is not the
\* entry's userId answer 403 and change no timesheet record and no
\* user-timesheets list.
C7_NonOwnerForbidden ==
    [][( /\ resp'.op \in {"putTimesheet", "deleteTimesheet"}
         /\ resp'.arg[1] \in authUsers
         /\ resp'.arg[2] \in DOMAIN timesheets
         /\ timesheets[resp'.arg[2]].userId # resp'.arg[1] )
        => /\ resp'.status = 403
           /\ UNCHANGED <<timesheets, userTimesheets>>]_vars

\* a delete refused to a caller who has entries, on another user's entry
C7_Witness ==
    /\ resp.op = "deleteTimesheet" /\ resp.status = 403
    /\ resp.arg[2] \in DOMAIN timesheets
    /\ timesheets[resp.arg[2]].userId # resp.arg[1]
    /\ GetList(userTimesheets, resp.arg[1]) # <<>>
    /\ Count(GetList(userTimesheets, timesheets[resp.arg[2]].userId),
             resp.arg[2]) = 1

\* C9: every stored user with an orgId has its id exactly once in
\* org-users of that orgId.
C9_UsersInOrgIndexOnce ==
    \A u \in DOMAIN users :
        users[u].orgId # NULL =>
            Count(GetList(orgUsers, users[u].orgId), u) = 1

\* C10: every stored project, timesheet and invite code has its id exactly
\* once in the index of its orgId / userId, and no index names an id whose
\* record is gone.
C10_IndexesMatchRecords ==
    /\ \A p \in DOMAIN projects :
          Count(GetList(orgProjects, projects[p].orgId), p) = 1
    /\ \A t \in DOMAIN timesheets :
          Count(GetList(userTimesheets, timesheets[t].userId), t) = 1
    /\ \A c \in DOMAIN inviteCodes :
          Count(GetList(orgInviteCodes, inviteCodes[c].orgId), c) = 1
    /\ \A o \in DOMAIN orgProjects : Listed(orgProjects, o) \subseteq DOMAIN projects
    /\ \A u \in DOMAIN userTimesheets :
          Listed(userTimesheets, u) \subseteq DOMAIN timesheets
    /\ \A o \in DOMAIN orgInviteCodes :
          Listed(orgInviteCodes, o) \subseteq DOMAIN inviteCodes

\* C11: a DELETE /users/{userId} answered with success, for a user whose
\* record had an orgId, leaves neither the record users:{userId} nor the id
\* in org-users of that orgId.
C11_DeletedUserLeavesIndex ==
    [][( /\ resp'.op = "deleteUser"
         /\ resp'.status = 200
         /\ users[resp'.arg[2]].orgId # NULL )
        => /\ resp'.arg[2] \notin DOMAIN users'
           /\ resp'.arg[2] \notin
                 Listed(orgUsers', users[resp'.arg[2]].orgId)]_vars

\* C12: the userId and the id of a stored timesheet never change: POST
\* /timesheets stores the caller's id and the key's id, and no request, PUT
\* /timesheets/{id} with a body that carries userId or id included, stores
\* another userId or id under that key.
C12_OwnerAndIdFixed ==
    [][ /\ \A t \in DOMAIN timesheets \cap DOMAIN timesheets' :
              /\ timesheets'[t].userId = timesheets[t].userId
              /\ timesheets'[t].id = t
        /\ \A t \in DOMAIN timesheets' \ DOMAIN timesheets :
              /\ resp'.op = "postTimesheets"
              /\ timesheets'[t].userId = resp'.arg[1]
              /\ timesheets'[t].id = t ]_vars

\* an accepted PUT whose body names another account and another id
C12_Witness ==
    /\ resp.op = "putTimesheet" /\ resp.status = 200
    /\ "userId" \in DOMAIN resp.arg[3]
    /\ resp.arg[3].userId # resp.arg[1]
    /\ resp.arg[3].id # resp.arg[2]
    /\ timesheets[resp.arg[2]].userId = resp.arg[1]

\* C19: every record PUT /timesheets/{id} stores has duration equal to the
\* minutes between its startTime and endTime, and greater than 0.
C19_DurationRecomputed ==
    [][( /\ resp'.op = "putTimesheet"
         /\ resp'.status = 200 )
        => LET stored == timesheets'[resp'.arg[2]]
           IN /\ stored.duration = stored.endTime - stored.startTime
              /\ stored.duration > 0]_vars

\* the protected routes, by how a response records the request
CallerFirstOps ==
    {"getInviteCodes", "getOrganization", "getMe", "putMe", "getOrgUsers",
     "putUser", "deleteUser", "postTimesheets", "getTimesheets",
     "getOrgTimesheets", "putTimesheet", "deleteTimesheet", "uploadPhoto"}

CallerOnlyOps ==
    {"postInviteCodes", "toggleInviteCode", "deleteInviteCode",
     "postProjects", "getProjects", "putProject", "deleteProject"}

\* the credential of the request a response answers
Caller(r) == IF r.op \in CallerOnlyOps THEN r.arg ELSE r.arg[1]

\* the key-value store, the id generators and the provider's accounts
stored == <<kvVars, idVars, authUsers>>

\* C13: every protected route called with a credential the provider
\* resolves to no account answers 401 'Unauthorized' and writes nothing.
C13_UnverifiedGets401 ==
    [][( /\ resp'.op \in CallerFirstOps \cup CallerOnlyOps
         /\ Caller(resp') \notin authUsers )
        => /\ resp'.status = 401
           /\ resp'.err = "Unauthorized"
           /\ UNCHANGED stored]_vars

\* a request without a valid credential refused while there is data to change
C13_Witness ==
    /\ resp.op = "deleteTimesheet" /\ resp.status = 401
    /\ resp.arg[1] = nextUser
    /\ resp.arg[2] \in DOMAIN timesheets
    /\ DOMAIN projects # {} /\ DOMAIN inviteCodes # {}

\* the admin-only write routes
AdminWriteOps ==
    {"postInviteCodes", "toggleInviteCode", "deleteInviteCode", "putUser",
     "deleteUser", "postProjects", "putProject", "deleteProject"}

\* C14: every admin-only write route called by a verified user whose stored
\* role is not 'admin' answers 403 and writes nothing.
C14_NonAdminForbidden ==
    [][( /\ resp'.op \in AdminWriteOps
         /\ Caller(resp') \in authUsers
         /\ Caller(resp') \in DOMAIN users
         /\ users[Caller(resp')].role # "admin" )
        => /\ resp'.status = 403
           /\ UNCHANGED stored]_vars

\* a staff member of the organization refused the deletion of its admin,
\* while the organization has an invite code and a project
C14_Witness ==
    /\ resp.op = "deleteUser" /\ resp.status = 403
    /\ resp.arg[1] \in DOMAIN users /\ resp.arg[2] \in DOMAIN users
    /\ users[resp.arg[1]].role = "staff"
    /\ users[resp.arg[1]].orgId # NULL
    /\ users[resp.arg[2]].role = "admin"
    /\ users[resp.arg[2]].orgId = users[resp.arg[1]].orgId
    /\ DOMAIN inviteCodes # {} /\ DOMAIN projects # {}

\* the routes whose path carries an orgId
OrgReadOps ==
    {"getOrganization", "getOrgUsers", "getOrgTimesheets", "getInviteCodes"}

\* C15: every route whose path carries an orgId answers a verified caller
\* whose stored orgId differs from the parameter with 403 and with none of
\* that organization's data.
C15_OtherOrgForbidden ==
    [][( /\ resp'.op \in OrgReadOps
         /\ Caller(resp') \in authUsers
         /\ Caller(resp') \in DOMAIN users
         /\ users[Caller(resp')].orgId # resp'.arg[2] )
        => /\ resp'.status = 403
           /\ resp'.out = {}]_vars

\* the same for the three list routes, which make the test
C15_ListsOtherOrgForbidden ==
    [][( /\ resp'.op \in OrgReadOps \ {"getOrganization"}
         /\ Caller(resp') \in authUsers
         /\ Caller(resp') \in DOMAIN users
         /\ users[Caller(resp')].orgId # resp'.arg[2] )
        => /\ resp'.status = 403
           /\ resp'.out = {}]_vars

\* the fields PUT /users/me keeps from the stored profile
Protected == {"id", "role", "orgId"}

\* C16: PUT /users/me leaves the caller's stored id, role and orgId as they
\* were for every payload, payloads that carry role, orgId or id included;
\* the payload's other fields are merged into the profile, and nothing else
\* in the store changes.
C16_ProfileKeepsRoleAndOrg ==
    [][( /\ resp'.op = "putMe"
         /\ resp'.status = 200 )
        => LET caller == resp'.arg[1]
               body == resp'.arg[2]
               before == users[caller]
               after == users'[caller]
           IN /\ after.id = caller /\ before.id = caller
              /\ after.role = before.role
              /\ after.orgId = before.orgId
              /\ DOMAIN after = DOMAIN before \cup DOMAIN body
              /\ \A f \in DOMAIN body \ Protected : after[f] = body[f]
              /\ \A f \in DOMAIN before \ DOMAIN body : after[f] = before[f]
              /\ \A u \in DOMAIN users \ {caller} :
                    u \in DOMAIN users' /\ users'[u] = users[u]
              /\ DOMAIN users' = DOMAIN users
              /\ UNCHANGED <<organizations, userOrg, orgUsers, authUsers>>]_vars

\* a staff account whose payload asked for role 'admin', another orgId and
\* another id, and whose name was merged
C16_Witness ==
    /\ resp.op = "putMe" /\ resp.status = 200
    /\ DOMAIN resp.arg[2] = {"name", "role", "orgId", "id"}
    /\ resp.arg[2].role = "admin"
    /\ users[resp.arg[1]].role = "staff"
    /\ users[resp.arg[1]].orgId # resp.arg[2].orgId
    /\ users[resp.arg[1]].name = "Bob"

\* C17: a PUT /users/{userId} by an admin on the admin's own id with a body
\* that carries another role is refused and leaves the admin's stored role
\* as it was.
C17_OwnRoleChangeBlocked ==
    [][( /\ resp'.op = "putUser"
         /\ resp'.arg[1] = resp'.arg[2]
         /\ resp'.arg[1] \in authUsers
         /\ resp'.arg[1] \in DOMAIN users
         /\ users[resp'.arg[1]].role = "admin"
         /\ "role" \in DOMAIN resp'.arg[3]
         /\ resp'.arg[3].role # "admin" )
        => /\ resp'.status # 200
           /\ users'[resp'.arg[1]].role = users[resp'.arg[1]].role]_vars

\* C18: a DELETE /users/{userId} by a verified caller on the caller's own id
\* is answered with an error and leaves the user records, the org-users
\* lists and the provider's accounts as they were.
C18_SelfDeleteRefused ==
    [][( /\ resp'.op = "deleteUser"
         /\ resp'.arg[1] = resp'.arg[2]
         /\ resp'.arg[1] \in authUsers )
        => /\ resp'.status \in {400, 403, 500}
           /\ resp'.err # ""
           /\ UNCHANGED <<users, orgUsers, orgsUsers, userOrg, authUsers>>]_vars

\* an admin listed in the organization's users, refused their own deletion
C18_Witness ==
    /\ resp.op = "deleteUser" /\ resp.status = 400
    /\ resp.err = "Cannot delete your own account"
    /\ resp.arg[1] = resp.arg[2]
    /\ resp.arg[1] \in DOMAIN users /\ resp.arg[1] \in authUsers
    /\ users[resp.arg[1]].role = "admin"
    /\ users[resp.arg[1]].orgId # NULL
    /\ resp.arg[1] \in Listed(orgUsers, users[resp.arg[1]].orgId)

\* the pairs of signups that both succeeded after both read the same code
\* one use short of its limit (currentUses = maxUses - 1)
BoundaryPairs ==
    {pq \in (DOMAIN procs) \X (DOMAIN procs) :
        /\ pq[1] < pq[2]
        /\ procs[pq[1]].op = "signup" /\ procs[pq[2]].op = "signup"
        /\ procs[pq[1]].status = 200 /\ procs[pq[2]].status = 200
        /\ procs[pq[1]].validCode.id = procs[pq[2]].validCode.id
        /\ procs[pq[1]].validCode.maxUses # NULL
        /\ procs[pq[1]].validCode.currentUses
               = procs[pq[1]].validCode.maxUses - 1
        /\ procs[pq[2]].validCode.currentUses
               = procs[pq[2]].validCode.maxUses - 1}

\* the signups that joined by the code with this id
Redeemers(codeId) ==
    {p \in DOMAIN procs : /\ procs[p].op = "signup"
                          /\ procs[p].status = 200
                          /\ procs[p].validCode.id = codeId}

\* C20 (as the code behaves): when two signups that both read the same
\* invite code at currentUses = maxUses - 1 have both succeeded, the stored
\* code has currentUses <= maxUses: each request writes the currentUses it
\* read plus one, so one of the two increments is lost and the counter
\* never passes the limit although more users joined than it allows.
C20_BothSucceedUsesWithinLimit ==
    \A pq \in BoundaryPairs :
        LET validCode == procs[pq[1]].validCode
        IN /\ validCode.id \in DOMAIN inviteCodes
           /\ inviteCodes[validCode.id].currentUses <= validCode.maxUses

\* two signups succeeded side by side with a code one use short of its
\* limit: the stored counter stands at maxUses and more users joined by the
\* code than maxUses
C20_Witness ==
    \E pq \in BoundaryPairs :
        LET validCode == procs[pq[1]].validCode
        IN /\ inviteCodes[validCode.id].currentUses = validCode.maxUses
           /\ Cardinality(Redeemers(validCode.id)) > validCode.maxUses
           /\ procs[pq[1]].id \in DOMAIN users
           /\ procs[pq[2]].id \in DOMAIN users
           /\ users[procs[pq[1]].id].orgId = validCode.orgId
           /\ users[procs[pq[2]].id].orgId = validCode.orgId

\* C20 as stated: after the two signups succeeded the stored code has
\* currentUses > maxUses
C20_BothSucceedUsesAbove ==
    \A pq \in BoundaryPairs :
        LET validCode == procs[pq[1]].validCode
        IN /\ validCode.id \in DOMAIN inviteCodes
           /\ inviteCodes[validCode.id].currentUses > validCode.maxUses

\* the three states of a code record the claim names
ExpiredAt(c, t) == c.expiresAt # NULL /\ t > c.expiresAt
Expired(c) == ExpiredAt(c, now)
Exhausted(c) == c.maxUses # NULL /\ c.currentUses = c.maxUses
Deactivated(c) == ~c.isActive

\* the step in which signup p's codes.find returns a record
FindsCode(p) ==
    /\ procs[p].op = "signup" /\ procs[p].pc = "findCode"
    /\ procs'[p].pc = "setCode"

\* C21 (as the code behaves): expired is terminal for redemption.  Once a
\* stored code has now > expiresAt, every later record under its id is
\* expired too, and no signup's lookup returns an expired record, with
\* signups, toggles and deletions running side by side.
C21_ExpiredIsTerminal ==
    [][/\ \A i \in DOMAIN inviteCodes \cap DOMAIN inviteCodes' :
              Expired(inviteCodes[i]) => Expired(inviteCodes[i])'
       /\ \A p \in DOMAIN procs :
              FindsCode(p) => ~ExpiredAt(procs'[p].validCode, now')]_vars

\* a signup with the string of an expired code, active and with uses
\* left, has been refused
C21_Witness ==
    /\ resp.op = "signup" /\ resp.status = 400
    /\ \E p \in DOMAIN procs :
          /\ procs[p].op = "signup" /\ procs[p].status = 400
          /\ procs[p].code = resp.arg
    /\ \E i \in DOMAIN inviteCodes :
          /\ inviteCodes[i].code = resp.arg
          /\ Expired(inviteCodes[i])
          /\ ~Exhausted(inviteCodes[i]) /\ ~Deactivated(inviteCodes[i])

\* C21 as stated: a code that is exhausted, expired or deactivated stays
\* so under its id, and no signup's lookup returns such a record
C21_BlockedIsTerminal ==
    [][/\ \A i \in DOMAIN inviteCodes \cap DOMAIN inviteCodes' :
              /\ Expired(inviteCodes[i]) => Expired(inviteCodes[i])'
              /\ Exhausted(inviteCodes[i]) => Exhausted(inviteCodes'[i])
              /\ Deactivated(inviteCodes[i]) => Deactivated(inviteCodes'[i])
       /\ \A p \in DOMAIN procs :
              FindsCode(p) => /\ ~ExpiredAt(procs'[p].validCode, now')
                              /\ ~Exhausted(procs'[p].validCode)
                              /\ ~Deactivated(procs'[p].validCode)]_vars

\* the pairs of POST /timesheets requests of one user that both answered
\* success after both read the same user-timesheets list
OverlappingPosts ==
    {pq \in (DOMAIN procs) \X (DOMAIN procs) :
        /\ pq[1] < pq[2]
        /\ procs[pq[1]].op = "postTimesheets"
        /\ procs[pq[2]].op = "postTimesheets"
        /\ procs[pq[1]].status = 200 /\ procs[pq[2]].status = 200
        /\ procs[pq[1]].token = procs[pq[2]].token
        /\ procs[pq[1]].list = procs[pq[2]].list}

\* C22: when two POST /timesheets of one user that read the same
\* user-timesheets list have both answered success, the user's list holds
\* at most one of the two new ids, and a GET /timesheets of that user
\* returns at most one of the two entries.
C22_OverlappingAppendLosesOne ==
    \A pq \in OverlappingPosts :
        LET a == procs[pq[1]].id
            b == procs[pq[2]].id
            owner == procs[pq[1]].token
        IN /\ ~(/\ a \in Listed(userTimesheets, owner)
                /\ b \in Listed(userTimesheets, owner))
           /\ (/\ resp.op = "getTimesheets" /\ resp.status = 200
               /\ resp.arg[1] = owner) => ~({a, b} \subseteq resp.out)

\* both requests answered success, both records are stored, the list holds
\* one of the two ids and the owner's GET /timesheets has returned only
\* that one
C22_Witness ==
    \E pq \in OverlappingPosts :
        LET a == procs[pq[1]].id
            b == procs[pq[2]].id
            owner == procs[pq[1]].token
        IN /\ a \in DOMAIN timesheets /\ b \in DOMAIN timesheets
           /\ timesheets[a].userId = owner /\ timesheets[b].userId = owner
           /\ Cardinality({a, b} \cap Listed(userTimesheets, owner)) = 1
           /\ resp.op = "getTimesheets" /\ resp.status = 200
           /\ resp.arg[1] = owner
           /\ Cardinality({a, b} \cap resp.out) = 1
           /\ resp.out = {t.id : t \in Mget(timesheets,
                                      GetList(userTimesheets, owner))}

\* a create whose index write failed: the fresh id is taken and the index
\* list is what it was
ProjectIndexFailed == nextProject' = nextProject + 1 /\ orgProjects' = orgProjects
TimesheetIndexFailed ==
    nextTimesheet' = nextTimesheet + 1 /\ userTimesheets' = userTimesheets
CodeIndexFailed == nextCode' = nextCode + 1 /\ orgInviteCodes' = orgInviteCodes

\* the new record is stored and the records stored before are as they were
Kept(ns, nsAfter, id) ==
    /\ id \in DOMAIN nsAfter
    /\ DOMAIN nsAfter = DOMAIN ns \cup {id}
    /\ \A i \in DOMAIN ns : nsAfter[i] = ns[i]

\* C23 (as the code behaves): when the store fails on the index write
\* after the record was written, the record stays stored; POST /projects
\* and POST /timesheets answer 500, POST /invite-codes answers 200.
C23_FailedIndexKeepsRecord ==
    [][/\ ProjectIndexFailed =>
              /\ Kept(projects, projects', nextProject)
              /\ resp'.op = "postProjects" /\ resp'.status = 500
       /\ TimesheetIndexFailed =>
              /\ Kept(timesheets, timesheets', nextTimesheet)
              /\ resp'.op = "postTimesheets" /\ resp'.status = 500
       /\ CodeIndexFailed =>
              /\ Kept(inviteCodes, inviteCodes', nextCode)
              /\ resp'.op = "postInviteCodes" /\ resp'.status = 200]_vars

\* a project create has just answered 500 with its record stored and
\* unlisted, and an entry and an invite code are stored and unlisted too
C23_Witness ==
    /\ resp.op = "postProjects" /\ resp.status = 500
    /\ nextProject - 1 \in DOMAIN projects
    /\ nextProject - 1 \notin
           Listed(orgProjects, projects[nextProject - 1].orgId)
    /\ \E i \in DOMAIN timesheets :
           i \notin Listed(userTimesheets, timesheets[i].userId)
    /\ \E i \in DOMAIN inviteCodes :
           i \notin Listed(orgInviteCodes, inviteCodes[i].orgId)

\* C23 as stated: the record stays stored and the request answers 500, for
\* projects, timesheets and invite codes alike
C23_FailedIndexAnswers500 ==
    [][/\ ProjectIndexFailed =>
              /\ Kept(projects, projects', nextProject)
              /\ resp'.status = 500
       /\ TimesheetIndexFailed =>
              /\ Kept(timesheets, timesheets', nextTimesheet)
              /\ resp'.status = 500
       /\ CodeIndexFailed =>
              /\ Kept(inviteCodes, inviteCodes', nextCode)
              /\ resp'.status = 500]_vars

\* the admin routes that write a user or a project record
TenantWriteOps == {"putUser", "deleteUser", "putProject", "deleteProject"}

\* the records of ns that belong to another organization than org are
\* stored after the step as they were before it
OthersUntouched(ns, nsAfter, org) ==
    \A i \in DOMAIN ns :
        ns[i].orgId # org => i \in DOMAIN nsAfter /\ nsAfter[i] = ns[i]

\* the index lists of the other organizations are as they were
OtherListsUntouched(index, indexAfter, org) ==
    \A o \in (DOMAIN index \cup DOMAIN indexAfter) \ {org} :
        o \in DOMAIN index /\ o \in DOMAIN indexAfter
            /\ indexAfter[o] = index[o]

\* C24: a PUT or DELETE on /users/{userId} or /projects/{projectId} by an
\* admin leaves every user and project record of another organization, and
\* every other organization's org-users and org-projects list, as it was.
C24_AdminWritesStayInOrg ==
    [][( /\ resp'.op \in TenantWriteOps
         /\ Caller(resp') \in authUsers
         /\ Caller(resp') \in DOMAIN users
         /\ users[Caller(resp')].role = "admin" )
       => LET org == users[Caller(resp')].orgId
          IN /\ OthersUntouched(users, users', org)
             /\ OthersUntouched(projects, projects', org)
             /\ OtherListsUntouched(orgUsers, orgUsers', org)
             /\ OtherListsUntouched(orgProjects, orgProjects', org)]_vars

\* C25: a user record that POST /signup stores has role 'admin' only if
\* the same signup created a new organization, whose id the record carries;
\* a signup with neither inviteCode nor organizationName stores no admin.
C25_SignupAdminOnlyWithNewOrg ==
    [][( /\ resp'.op = "signup" /\ resp'.status = 200
         /\ nextUser' = nextUser + 1
         /\ users'[nextUser].role = "admin" )
       => /\ nextOrg' = nextOrg + 1
          /\ nextOrg \in DOMAIN organizations'
          /\ organizations'[nextOrg].createdBy = nextUser
          /\ users'[nextUser].orgId = nextOrg]_vars

\* the user records stored by signups that redeemed the code with this id
RedeemedUsers(codeId) ==
    {procs[p].id : p \in {q \in DOMAIN procs :
                              /\ procs[q].op = "signup"
                              /\ procs[q].validCode.id = codeId
                              /\ procs[q].id \in DOMAIN users}}

\* C26: for every stored invite code with maxUses set, the user records
\* created by redeeming it number at most maxUses, however the signups
\* interleave.
C26_RedemptionsWithinMaxUses ==
    \A i \in DOMAIN inviteCodes :
        inviteCodes[i].maxUses # NULL =>
            Cardinality(RedeemedUsers(i)) <= inviteCodes[i].maxUses

\* the toggle and the signup that make up the whole of procs and have both
\* answered success on the same code
ToggleBesideSignup ==
    {ts \in (DOMAIN procs) \X (DOMAIN procs) :
        /\ Len(procs) = 2
        /\ procs[ts[1]].op = "toggleInviteCode" /\ procs[ts[1]].status = 200
        /\ procs[ts[2]].op = "signup" /\ procs[ts[2]].status = 200
        /\ procs[ts[2]].validCode.id = procs[ts[1]].id}

\* C27: after one toggle and one successful signup on a code created
\* active with currentUses 0 have both completed, in any interleaving, the
\* stored code is inactive (the negation of its prior isActive) and has
\* currentUses 1 (its prior value plus one).
C27_ToggleAndRedemptionBothApply ==
    \A ts \in ToggleBesideSignup :
        LET codeId == procs[ts[1]].id
        IN /\ codeId \in DOMAIN inviteCodes
           /\ inviteCodes[codeId].isActive = FALSE
           /\ inviteCodes[codeId].currentUses = 1

\* POST /signup with this code string would pass its lookup now
SignupAccepts(code) ==
    \E c \in GetByPrefix(inviteCodes) : SignupValid(c, code, now)

\* C28: at the same store state and time, GET /verify-invite-code/{code}
\* and POST /verify-invite-code answer valid: true exactly when the lookup
\* of POST /signup with that code string returns a code.
C28_ValidityChecksAgree ==
    [][resp'.op \in {"verifyInviteCodeGet", "verifyInviteCodePost"}
       => (resp'.err = "" <=> SignupAccepts(resp'.arg))]_vars

\* the code ids whose DELETE /invite-codes/{id} has answered success
DeletedCodes ==
    {procs[p].id : p \in {q \in DOMAIN procs :
                              /\ procs[q].op = "deleteInviteCode"
                              /\ procs[q].status = 200}}

\* C29: once DELETE /invite-codes/{id} has answered success no record is
\* stored at invite-codes:{id}, also when a signup with the code was in
\* flight while the deletion ran (signups and deletions only).
C29_DeletedCodeStaysGone ==
    (\A p \in DOMAIN procs : procs[p].op \in {"signup", "deleteInviteCode"})
        => \A codeId \in DeletedCodes : codeId \notin DOMAIN inviteCodes

\* the routes whose response carries invite-code records
CodeReadOps == {"getInviteCodes", "testCodes", "testCode"}

\* C30: a response that carries invite-code records goes to a verified
\* admin, and every record in it belongs to that admin's organization.
C30_CodesOnlyToOwningAdmin ==
    [][(resp'.op \in CodeReadOps /\ resp'.out # {})
       => /\ resp'.arg[1] \in authUsers
          /\ resp'.arg[1] \in DOMAIN users
          /\ users[resp'.arg[1]].role = "admin"
          /\ \A i \in resp'.out :
                 inviteCodes[i].orgId = users[resp'.arg[1]].orgId]_vars

====
